---- MODULE Spec2Model ----
(***************************************************************************)
(* Governance control plane of zeroclaw: the action policy engine with its *)
(* approval workflow and receipt ledger (crates/zeroclaw-core/src/         *)
(* control_plane.rs), the hash-linked audit chain and the signed release   *)
(* rollout state machine (apps/zeroclaw-app/src-tauri/src/lib.rs).         *)
(*                                                                         *)
(* Time is counted in days: the 24 hour trial is one clock unit and the    *)
(* retention periods are whole days.  Uuid::new_v4 is a counter that never *)
(* repeats a value.  SHA-256 and Ed25519 are symbolic: a digest is the     *)
(* tuple of what was hashed, a signature names the key and the payload it  *)
(* was made with.                                                          *)
(***************************************************************************)
EXTENDS Integers, Sequences, FiniteSets, TLC

VARIABLES
    control_plane_file,   \* control_plane.json: <<>> when absent, else <<ControlPlaneState>>
    audit_log,            \* .right-hand-audit.jsonl: sequence of AuditEvent
    rollout_file,         \* .right-hand-rollout.json: <<>> when absent, else <<RolloutState>>
    now,                  \* Utc::now(), in days
    uuid_counter,         \* number of uuids handed out by Uuid::new_v4
    ret,                  \* what the last operation returned
    origin,               \* history: approval id -> the request that created it
    tampered,             \* history: index of the audit event edited out of band (0: none)
    calls,                \* the calls in flight: what each caller has read and not yet written
    lifecycle,            \* LifecycleController.state: the LifecycleSnapshot
    inner                 \* LocalAgentRuntime.inner: the RuntimeInner

vars == <<control_plane_file, audit_log, rollout_file, now, uuid_counter, lifecycle, inner,
          calls, ret, origin, tampered>>

(***************************************************************************)
(* Bounds of the model                                                     *)
(***************************************************************************)
MaxTime == 1
MaxUuid == 3
ReceiptCap == 2
MaxLog == 3
MaxCommands == 5
MaxSigners == 2
MaxAge == 2
MaxRules == 2

(***************************************************************************)
(* Program constants                                                       *)
(***************************************************************************)
TrialDuration == 1
DefaultReceiptsDays == 30
DefaultApprovalsDays == 90

None == "none"

\* the instants that timestamps name: from MaxAge days before the start of the
\* run to the end of a trial started at its end
Clock == (0 - MaxAge)..(MaxTime + TrialDuration)

Min(S) == CHOOSE x \in S : \A y \in S : x <= y

Max2(a, b) == IF a >= b THEN a ELSE b

(***************************************************************************)
(* Timestamps: DateTime::to_rfc3339 and parse_rfc3339                      *)
(***************************************************************************)
\* the RFC 3339 text of every instant of the clock
Rfc3339 == [t \in Clock |-> "T" \o ToString(t)]

to_rfc3339(t) == Rfc3339[t]

parse_rfc3339(raw) ==
    IF \E t \in Clock : Rfc3339[t] = raw
    THEN [ok |-> TRUE, value |-> CHOOSE t \in Clock : Rfc3339[t] = raw]
    ELSE [ok |-> FALSE, value |-> 0]

\* the n-th value drawn from Uuid::new_v4
Uuids == [n \in 1..(MaxUuid + MaxLog + MaxCommands + 2) |-> "uuid-" \o ToString(n)]

new_v4(n) == Uuids[n]

(***************************************************************************)
(* AccessState                                                             *)
(***************************************************************************)
AccessState_default(t) ==
    [ plan |-> "trial", active_view |-> "personal",
      trial_started_at |-> None, trial_expires_at |-> None,
      updated_at |-> to_rfc3339(t) ]

AccessState_start_trial(access, t) ==
    [ plan |-> "trial", active_view |-> "personal",
      trial_started_at |-> to_rfc3339(t),
      trial_expires_at |-> to_rfc3339(t + TrialDuration),
      updated_at |-> to_rfc3339(t) ]

is_trial_active(access, t) ==
    /\ access.plan = "trial"
    /\ access.trial_expires_at # None
    /\ parse_rfc3339(access.trial_expires_at).ok
    /\ parse_rfc3339(access.trial_expires_at).value > t

\* bug: a trial never runs out
can_access_view_trial_forever(access, view, t) ==
    CASE access.plan = "trial" -> TRUE
      [] access.plan = "personal" -> view = "personal"
      [] access.plan = "org" -> view = "org"

can_access_view(access, view, t) ==
    CASE access.plan = "trial" -> is_trial_active(access, t)
      [] access.plan = "personal" -> view = "personal"
      [] access.plan = "org" -> view = "org"

\* bug: a paid plan is set without moving the active view
AccessState_set_paid_plan_keeping_view(access, plan, t) ==
    CASE plan = "trial" -> AccessState_start_trial(access, t)
      [] plan = "personal" ->
            [access EXCEPT !.plan = "personal", !.updated_at = to_rfc3339(t)]
      [] plan = "org" ->
            [access EXCEPT !.plan = "org", !.updated_at = to_rfc3339(t)]

AccessState_set_paid_plan(access, plan, t) ==
    CASE plan = "trial" -> AccessState_start_trial(access, t)
      [] plan = "personal" ->
            [access EXCEPT !.plan = "personal", !.active_view = "personal",
                           !.updated_at = to_rfc3339(t)]
      [] plan = "org" ->
            [access EXCEPT !.plan = "org", !.active_view = "org",
                           !.updated_at = to_rfc3339(t)]

(***************************************************************************)
(* Policy rules                                                            *)
(***************************************************************************)
matches_filter(filters, value) ==
    \/ Len(filters) = 0
    \/ \E i \in 1..Len(filters) : filters[i] = "*" \/ filters[i] = value

PolicyRule_matches(rule, request) ==
    /\ rule.enabled
    /\ matches_filter(rule.actor_roles, request.actor_role)
    /\ matches_filter(rule.actions, request.action)
    /\ matches_filter(rule.resources, request.resource)
    /\ matches_filter(rule.destinations, request.destination)

default_policy_rules ==
    << [ id |-> "owner-full-access", actor_roles |-> <<"owner">>,
         actions |-> <<"*">>, resources |-> <<"*">>, destinations |-> <<"*">>,
         require_approval |-> FALSE, enabled |-> TRUE ],
       [ id |-> "admin-full-access", actor_roles |-> <<"admin">>,
         actions |-> <<"*">>, resources |-> <<"*">>, destinations |-> <<"*">>,
         require_approval |-> FALSE, enabled |-> TRUE ],
       [ id |-> "operator-runtime", actor_roles |-> <<"operator">>,
         actions |-> << "runtime.start", "runtime.stop", "runtime.send_message",
                        "background.enable", "background.disable", "logs.read",
                        "logs.export", "receipts.read" >>,
         resources |-> <<"*">>,
         destinations |-> <<"local", "provider", "workspace">>,
         require_approval |-> FALSE, enabled |-> TRUE ],
       [ id |-> "operator-governed-changes", actor_roles |-> <<"operator">>,
         actions |-> << "integration.install", "integration.enable",
                        "integration.disable", "skills.install", "skills.enable",
                        "skills.disable", "skills.remove", "mcp.install",
                        "mcp.enable", "mcp.disable", "mcp.update_config",
                        "mcp.remove" >>,
         resources |-> <<"*">>, destinations |-> <<"*">>,
         require_approval |-> TRUE, enabled |-> TRUE ],
       [ id |-> "viewer-readonly", actor_roles |-> <<"viewer">>,
         actions |-> <<"logs.read", "receipts.read", "profiles.read">>,
         resources |-> <<"*">>, destinations |-> <<"local", "workspace">>,
         require_approval |-> FALSE, enabled |-> TRUE ] >>

\* bug: the last matching rule is taken
find_rule_last_match(rules, request) ==
    LET hits == {i \in 1..Len(rules) : PolicyRule_matches(rules[i], request)}
    IN IF hits = {} THEN 0 ELSE CHOOSE i \in hits : \A j \in hits : j <= i

\* policy_rules.iter().find(|rule| rule.matches(&request)): index of the
\* first matching rule, 0 when there is none
find_rule(rules, request) ==
    LET hits == {i \in 1..Len(rules) : PolicyRule_matches(rules[i], request)}
    IN IF hits = {} THEN 0 ELSE Min(hits)

(***************************************************************************)
(* ControlPlaneState and its store                                         *)
(***************************************************************************)
RetentionPolicy_default ==
    [receipts_days |-> DefaultReceiptsDays, approvals_days |-> DefaultApprovalsDays]

ControlPlaneState_default(t) ==
    [ version |-> 1,
      access_state |-> AccessState_default(t),
      policy_rules |-> default_policy_rules,
      retention |-> RetentionPolicy_default,
      receipts |-> <<>>,
      approvals |-> <<>> ]

normalize(state, t) ==
    LET withRules == IF Len(state.policy_rules) = 0
                     THEN [state EXCEPT !.policy_rules = default_policy_rules]
                     ELSE state
    IN IF withRules.access_state.trial_started_at = None
          /\ withRules.access_state.plan = "trial"
       THEN [withRules EXCEPT !.access_state = AccessState_start_trial(@, t)]
       ELSE withRules

\* ControlPlaneStore::load: a missing file is created with a fresh trial
load(file, t) ==
    IF file = <<>>
    THEN [ControlPlaneState_default(t) EXCEPT
             !.access_state = AccessState_start_trial(@, t)]
    ELSE normalize(file[1], t)

\* what load leaves on disk: the file it created, or the file as it was
file_after_load(file, t) == IF file = <<>> THEN <<load(file, t)>> ELSE file

save(state) == <<state>>

\* bug: the receipt is pushed at the end and the front is kept on truncation
push_receipt_at_end(state, request, result, reason, receipt_id, t) ==
    LET receipt == [ id |-> receipt_id,
                     timestamp |-> to_rfc3339(t),
                     actor_id |-> request.actor_id,
                     actor_role |-> request.actor_role,
                     action |-> request.action,
                     resource |-> request.resource,
                     destination |-> request.destination,
                     result |-> result,
                     reason |-> reason,
                     context |-> request.context ]
        inserted == state.receipts \o <<receipt>>
    IN [state EXCEPT !.receipts =
            IF Len(inserted) > ReceiptCap
            THEN SubSeq(inserted, 1, ReceiptCap)
            ELSE inserted]

\* bug: the entry dropped at the bound is the newest one
push_receipt_drop_newest(state, request, result, reason, receipt_id, t) ==
    LET receipt == [ id |-> receipt_id,
                     timestamp |-> to_rfc3339(t),
                     actor_id |-> request.actor_id,
                     actor_role |-> request.actor_role,
                     action |-> request.action,
                     resource |-> request.resource,
                     destination |-> request.destination,
                     result |-> result,
                     reason |-> reason,
                     context |-> request.context ]
        inserted == <<receipt>> \o state.receipts
    IN [state EXCEPT !.receipts =
            IF Len(inserted) > ReceiptCap
            THEN SubSeq(inserted, 2, ReceiptCap + 1)
            ELSE inserted]

push_receipt(state, request, result, reason, receipt_id, t) ==
    LET receipt == [ id |-> receipt_id,
                     timestamp |-> to_rfc3339(t),
                     actor_id |-> request.actor_id,
                     actor_role |-> request.actor_role,
                     action |-> request.action,
                     resource |-> request.resource,
                     destination |-> request.destination,
                     result |-> result,
                     reason |-> reason,
                     context |-> request.context ]
        inserted == <<receipt>> \o state.receipts
    IN [state EXCEPT !.receipts =
            IF Len(inserted) > ReceiptCap
            THEN SubSeq(inserted, 1, ReceiptCap)
            ELSE inserted]

find_approval(approvals, id) ==
    LET hits == {i \in 1..Len(approvals) : approvals[i].id = id}
    IN IF hits = {} THEN 0 ELSE Min(hits)

\* bug: the resource is left out of the comparison
matches_request_without_resource(approval, request) ==
    /\ approval.actor_id = request.actor_id
    /\ approval.actor_role = request.actor_role
    /\ approval.action = request.action
    /\ approval.destination = request.destination

matches_request(approval, request) ==
    /\ approval.actor_id = request.actor_id
    /\ approval.actor_role = request.actor_role
    /\ approval.action = request.action
    /\ approval.resource = request.resource
    /\ approval.destination = request.destination

\* bug: the snapshot takes the resource from the destination
new_approval_wrong_snapshot(request, approval_id, created) ==
    [ id |-> approval_id,
      created_at |-> to_rfc3339(created),
      actor_id |-> request.actor_id,
      actor_role |-> request.actor_role,
      action |-> request.action,
      resource |-> request.destination,
      destination |-> request.destination,
      status |-> "pending",
      decided_by |-> None,
      decided_at |-> None,
      reason |-> None,
      context |-> request.context ]

new_approval(request, approval_id, created) ==
    [ id |-> approval_id,
      created_at |-> to_rfc3339(created),
      actor_id |-> request.actor_id,
      actor_role |-> request.actor_role,
      action |-> request.action,
      resource |-> request.resource,
      destination |-> request.destination,
      status |-> "pending",
      decided_by |-> None,
      decided_at |-> None,
      reason |-> None,
      context |-> request.context ]

Decision(allowed, requires_approval, reason, approval_id, receipt_id) ==
    [ allowed |-> allowed, requires_approval |-> requires_approval,
      reason |-> reason, approval_id |-> approval_id, receipt_id |-> receipt_id ]

\* bug: a pending approval lets the replay through
approval_verdict_waving_pending(status) ==
    CASE status = "approved" -> [allowed |-> TRUE, requires_approval |-> FALSE,
                                 result |-> "allowed", reason |-> "approved action"]
      [] status = "rejected" -> [allowed |-> FALSE, requires_approval |-> FALSE,
                                 result |-> "denied", reason |-> "approval rejected"]
      [] status = "pending" -> [allowed |-> TRUE, requires_approval |-> FALSE,
                                result |-> "allowed",
                                reason |-> "approval is still pending"]

\* bug: the Approved and Rejected arms are swapped
approval_verdict_swapped(status) ==
    CASE status = "rejected" -> [allowed |-> TRUE, requires_approval |-> FALSE,
                                 result |-> "allowed", reason |-> "approved action"]
      [] status = "approved" -> [allowed |-> FALSE, requires_approval |-> FALSE,
                                 result |-> "denied", reason |-> "approval rejected"]
      [] status = "pending" -> [allowed |-> FALSE, requires_approval |-> TRUE,
                                result |-> "pending_approval",
                                reason |-> "approval is still pending"]

\* the verdict of the approval found for a replayed request
approval_verdict(status) ==
    CASE status = "approved" -> [allowed |-> TRUE, requires_approval |-> FALSE,
                                 result |-> "allowed", reason |-> "approved action"]
      [] status = "rejected" -> [allowed |-> FALSE, requires_approval |-> FALSE,
                                 result |-> "denied", reason |-> "approval rejected"]
      [] status = "pending" -> [allowed |-> FALSE, requires_approval |-> TRUE,
                                result |-> "pending_approval",
                                reason |-> "approval is still pending"]

\* A branch of evaluate_action that pushes one receipt and returns a decision
\* without touching the approvals.
receipt_branch(state, request, t, uuid, allowed, requires_approval, result, reason, approval_id) ==
    [ state |-> push_receipt(state, request, result, reason, new_v4(uuid + 1), t),
      decision |-> Decision(allowed, requires_approval, reason, approval_id, new_v4(uuid + 1)),
      uuid |-> uuid + 1 ]

\* bug: an inaccessible view does not stop the request
access_denied_branch_fail_open(state, request, t, uuid) ==
    receipt_branch(state, request, t, uuid, TRUE, FALSE, "allowed",
        "policy allowed", None)

\* the active view is not accessible under the access state
access_denied_branch(state, request, t, uuid) ==
    receipt_branch(state, request, t, uuid, FALSE, FALSE, "denied",
        "access plan does not permit the current workspace view", None)

\* bug: a request that matches no rule is let through
no_rule_branch_fail_open(state, request, t, uuid) ==
    [ state |-> push_receipt(state, request, "allowed", "policy allowed", new_v4(uuid + 1), t),
      decision |-> Decision(TRUE, FALSE, "policy allowed", None, new_v4(uuid + 1)),
      uuid |-> uuid + 1 ]

\* no enabled rule matches
no_rule_branch(state, request, t, uuid) ==
    receipt_branch(state, request, t, uuid, FALSE, FALSE, "denied",
        "no matching policy rule", None)

\* the matched rule does not require approval
policy_allowed_branch(state, request, t, uuid) ==
    receipt_branch(state, request, t, uuid, TRUE, FALSE, "allowed",
        "policy allowed", None)

\* the matched rule requires approval and the request carries no approval_id
new_approval_branch(state, request, t, uuid, occurred) ==
    LET approval_id == new_v4(uuid + 1)
        receipt_id == new_v4(uuid + 2)
        pushed == [state EXCEPT !.approvals =
                      Append(@, new_approval(request, approval_id, occurred))]
    IN [ state |-> push_receipt(pushed, request, "pending_approval",
                       "action requires approval", receipt_id, t),
         decision |-> Decision(FALSE, TRUE, "action requires approval",
                               approval_id, receipt_id),
         uuid |-> uuid + 2 ]

\* bug: an unknown approval_id files an approval under that id
approval_missing_branch_filing(state, request, t, uuid) ==
    receipt_branch([state EXCEPT !.approvals =
                       Append(@, new_approval(request, request.approval_id, t))],
        request, t, uuid, FALSE, FALSE, "denied", "approval not found",
        request.approval_id)

\* bug: an unknown approval_id is answered as an approval still pending
approval_missing_branch_pending(state, request, t, uuid) ==
    receipt_branch(state, request, t, uuid, FALSE, TRUE, "pending_approval",
        "approval is still pending", request.approval_id)

\* the request carries an approval_id that no approval has
approval_missing_branch(state, request, t, uuid) ==
    receipt_branch(state, request, t, uuid, FALSE, FALSE, "denied",
        "approval not found", request.approval_id)

\* the approval found does not match the request
approval_mismatch_branch(state, request, t, uuid) ==
    receipt_branch(state, request, t, uuid, FALSE, FALSE, "denied",
        "approval does not match action request", request.approval_id)

\* the approval found matches the request: replay its verdict
approval_replay_branch(state, request, t, uuid, approval) ==
    LET v == approval_verdict(approval.status)
    IN receipt_branch(state, request, t, uuid, v.allowed, v.requires_approval,
           v.result, v.reason, request.approval_id)

\* ControlPlaneStore::evaluate_action on the loaded state: the state it saves,
\* the decision it returns and the uuid counter afterwards.
evaluate_action_on(state, request, t, uuid) ==
    LET occurred == IF request.occurred_at # None /\ parse_rfc3339(request.occurred_at).ok
                    THEN parse_rfc3339(request.occurred_at).value
                    ELSE t
        r == find_rule(state.policy_rules, request)
        a == find_approval(state.approvals, request.approval_id)
    IN
    IF ~can_access_view(state.access_state, state.access_state.active_view, t)
    THEN access_denied_branch(state, request, t, uuid)
    ELSE IF r = 0
    THEN no_rule_branch(state, request, t, uuid)
    ELSE IF ~state.policy_rules[r].require_approval
    THEN policy_allowed_branch(state, request, t, uuid)
    ELSE IF request.approval_id = None
    THEN new_approval_branch(state, request, t, uuid, occurred)
    ELSE IF a = 0
    THEN approval_missing_branch(state, request, t, uuid)
    ELSE IF ~matches_request(state.approvals[a], request)
    THEN approval_mismatch_branch(state, request, t, uuid)
    ELSE approval_replay_branch(state, request, t, uuid, state.approvals[a])

\* bug: the receipts are rewritten with the outcome of the approval
resolve_approval_on_restamping(state, idx, approver_role, approved, reason, t) ==
    [state EXCEPT !.approvals[idx] =
        [@ EXCEPT !.status = IF approved THEN "approved" ELSE "rejected",
                  !.decided_by = approver_role,
                  !.decided_at = to_rfc3339(t),
                  !.reason = reason],
                  !.receipts = [i \in 1..Len(@) |->
                      [@[i] EXCEPT !.result = IF approved THEN "allowed" ELSE "denied"]]]

\* ControlPlaneStore::resolve_approval on the loaded state
resolve_approval_on(state, idx, approver_role, approved, reason, t) ==
    [state EXCEPT !.approvals[idx] =
        [@ EXCEPT !.status = IF approved THEN "approved" ELSE "rejected",
                  !.decided_by = approver_role,
                  !.decided_at = to_rfc3339(t),
                  !.reason = reason]]

\* bug: an entry whose timestamp does not parse counts as expired
not_expired_parsed_only(stamp, cutoff) ==
    parse_rfc3339(stamp).ok /\ parse_rfc3339(stamp).value >= cutoff

\* Vec::retain with the retention predicate of purge_by_retention
not_expired(stamp, cutoff) ==
    ~parse_rfc3339(stamp).ok \/ parse_rfc3339(stamp).value >= cutoff

RECURSIVE retain_receipts(_, _)
retain_receipts(receipts, cutoff) ==
    IF receipts = <<>> THEN <<>>
    ELSE IF not_expired(Head(receipts).timestamp, cutoff)
         THEN <<Head(receipts)>> \o retain_receipts(Tail(receipts), cutoff)
         ELSE retain_receipts(Tail(receipts), cutoff)

RECURSIVE retain_approvals(_, _)
retain_approvals(approvals, cutoff) ==
    IF approvals = <<>> THEN <<>>
    ELSE IF not_expired(Head(approvals).created_at, cutoff)
         THEN <<Head(approvals)>> \o retain_approvals(Tail(approvals), cutoff)
         ELSE retain_approvals(Tail(approvals), cutoff)

purge_by_retention_on(state, t) ==
    [state EXCEPT
        !.receipts = retain_receipts(@, t - state.retention.receipts_days),
        !.approvals = retain_approvals(@, t - state.retention.approvals_days)]

(***************************************************************************)
(* Inputs of the control-plane operations                                  *)
(***************************************************************************)
BaseRequest ==
    [ actor_id |-> "operator-a", actor_role |-> "operator",
      action |-> "integration.enable", resource |-> "integration:slack",
      destination |-> "api.slack.com" ]

\* the request of the unit tests and its one-field variants: another actor,
\* a role with full access, an action no operator rule lists for this
\* destination, another resource, another destination
RequestShapes ==
    { BaseRequest,
      [BaseRequest EXCEPT !.actor_id = "operator-b"],
      [BaseRequest EXCEPT !.actor_role = "owner"],
      [BaseRequest EXCEPT !.action = "runtime.start"],
      [BaseRequest EXCEPT !.resource = "integration:github"],
      [BaseRequest EXCEPT !.destination = "local"] }

OccurredAts == {None}

UnknownId == "uuid-unknown"

ApprovalIdsOf(file) ==
    IF file = <<>> THEN {}
    ELSE {file[1].approvals[i].id : i \in 1..Len(file[1].approvals)}

Requests(file) ==
    { [ actor_id |-> s.actor_id, actor_role |-> s.actor_role, action |-> s.action,
        resource |-> s.resource, destination |-> s.destination,
        approval_id |-> a, occurred_at |-> o, context |-> "{}" ] :
      s \in RequestShapes, a \in {None, UnknownId} \cup ApprovalIdsOf(file),
      o \in OccurredAts }

ApproverRoles == {"admin", "operator"}
Reasons == {"reviewed"}
RetentionDays == {0, 2}
Plans == {"trial", "personal", "org"}
Views == {"personal", "org"}

Ret(op, ok, request, value) == [op |-> op, ok |-> ok, request |-> request, value |-> value]

\* the callers that may run at the same time
Callers == {1, 2}

\* a caller between calls; one in flight holds what it was given and what it
\* has read
Idle == [pc |-> "idle", given |-> <<>>, read |-> <<>>, result |-> <<>>]

NoCalls == [caller \in Callers |-> Idle]

(***************************************************************************)
(* Agent lifecycle and runtime                                             *)
(*                                                                         *)
(* The events published on the event bus and the log lines written are     *)
(* outputs; they are not kept.                                             *)
(***************************************************************************)
AgentStates == {"stopped", "starting", "running", "degraded", "stopping"}

LifecycleSnapshot(state, reason, updated_at) ==
    [state |-> state, reason |-> reason, updated_at |-> updated_at]

\* LifecycleController::default(), made when the clock stands at 0
LifecycleController_default == LifecycleSnapshot("stopped", None, to_rfc3339(0))

\* RuntimeInner::new(); session is None, or what run_message of the session
\* will do
RuntimeInner_new == [profile_id |-> None, session |-> None, health_task |-> FALSE]

\* bug: a stopped agent may be set running
is_valid_transition_with_shortcut(from, to) ==
    <<from, to>> \in { <<"stopped", "starting">>, <<"stopped", "running">>,
                       <<"starting", "running">>,
                       <<"starting", "degraded">>, <<"starting", "stopping">>,
                       <<"running", "degraded">>, <<"running", "stopping">>,
                       <<"degraded", "running">>, <<"degraded", "stopping">>,
                       <<"stopping", "stopped">> }

is_valid_transition(from, to) ==
    <<from, to>> \in { <<"stopped", "starting">>, <<"starting", "running">>,
                       <<"starting", "degraded">>, <<"starting", "stopping">>,
                       <<"running", "degraded">>, <<"running", "stopping">>,
                       <<"degraded", "running">>, <<"degraded", "stopping">>,
                       <<"stopping", "stopped">> }

\* LifecycleController::transition on the snapshot: the snapshot afterwards
\* and what is returned
transition_on(snapshot, target, reason, t) ==
    IF snapshot.state = target
    THEN [ ok |-> TRUE,
           snapshot |-> LifecycleSnapshot(snapshot.state, reason, to_rfc3339(t)),
           error |-> None ]
    ELSE IF ~is_valid_transition(snapshot.state, target)
    THEN [ ok |-> FALSE, snapshot |-> snapshot,
           error |-> "invalid lifecycle transition: " \o snapshot.state
                     \o " -> " \o target ]
    ELSE [ ok |-> TRUE, snapshot |-> LifecycleSnapshot(target, reason, to_rfc3339(t)),
           error |-> None ]

transition(target, reason) ==
    LET done == transition_on(lifecycle, target, reason, now)
    IN /\ lifecycle' = done.snapshot
       /\ ret' = Ret("transition", done.ok, [target |-> target, reason |-> reason],
                     IF done.ok THEN done.snapshot ELSE done.error)
       /\ UNCHANGED <<control_plane_file, audit_log, rollout_file, now, uuid_counter,
                      origin, tampered, calls, inner>>

(***************************************************************************)
(* Operations of ControlPlaneStore                                         *)
(***************************************************************************)
evaluate_action(request) ==
    LET r == evaluate_action_on(load(control_plane_file, now), request, now, uuid_counter)
    IN /\ r.uuid <= MaxUuid
       /\ control_plane_file' = save(r.state)
       /\ uuid_counter' = r.uuid
       /\ ret' = Ret("evaluate_action", TRUE, request, r.decision)
       /\ origin' = IF Len(r.state.approvals) > Len(load(control_plane_file, now).approvals)
                    THEN origin @@ (r.decision.approval_id :> request)
                    ELSE origin
       /\ UNCHANGED <<audit_log, rollout_file, now, tampered, calls, lifecycle, inner>>

\* bug: the approver's role is not looked at
resolve_approval_any_role(approval_id, approver_role, approved, reason) ==
    LET state == load(control_plane_file, now)
        idx == find_approval(state.approvals, approval_id)
    IN /\ IF idx = 0
          THEN /\ ret' = Ret("resolve_approval", FALSE, approval_id,
                             "approval '" \o approval_id \o "' not found")
               /\ control_plane_file' = file_after_load(control_plane_file, now)
          ELSE LET next == resolve_approval_on(state, idx, approver_role, approved, reason, now)
               IN /\ control_plane_file' = save(next)
                  /\ ret' = Ret("resolve_approval", TRUE, approval_id, next.approvals[idx])
       /\ UNCHANGED <<audit_log, rollout_file, now, uuid_counter, origin, tampered, calls, lifecycle, inner>>

resolve_approval(approval_id, approver_role, approved, reason) ==
    LET state == load(control_plane_file, now)
        idx == find_approval(state.approvals, approval_id)
    IN /\ IF approver_role \notin {"owner", "admin"}
          THEN /\ ret' = Ret("resolve_approval", FALSE, approval_id,
                             "only owner/admin can resolve approvals")
               /\ UNCHANGED control_plane_file
          ELSE IF idx = 0
          THEN /\ ret' = Ret("resolve_approval", FALSE, approval_id,
                             "approval '" \o approval_id \o "' not found")
               /\ control_plane_file' = file_after_load(control_plane_file, now)
          ELSE LET next == resolve_approval_on(state, idx, approver_role, approved, reason, now)
               IN /\ control_plane_file' = save(next)
                  /\ ret' = Ret("resolve_approval", TRUE, approval_id, next.approvals[idx])
       /\ UNCHANGED <<audit_log, rollout_file, now, uuid_counter, origin, tampered, calls, lifecycle, inner>>

set_retention(receipts_days, approvals_days) ==
    LET state == load(control_plane_file, now)
        next == [state EXCEPT !.retention =
                    [receipts_days |-> Max2(receipts_days, 1),
                     approvals_days |-> Max2(approvals_days, 1)]]
    IN /\ control_plane_file' = save(next)
       /\ ret' = Ret("set_retention", TRUE, None, next.retention)
       /\ UNCHANGED <<audit_log, rollout_file, now, uuid_counter, origin, tampered, calls, lifecycle, inner>>

\* bug: the purge also drops the oldest audit event
purge_by_retention_with_audit ==
    LET state == load(control_plane_file, now)
        next == purge_by_retention_on(state, now)
    IN /\ control_plane_file' = save(next)
       /\ audit_log' = IF audit_log = <<>> THEN audit_log ELSE Tail(audit_log)
       /\ ret' = Ret("purge_by_retention", TRUE, None,
                     [removed_receipts |-> Len(state.receipts) - Len(next.receipts),
                      removed_approvals |-> Len(state.approvals) - Len(next.approvals)])
       /\ UNCHANGED <<rollout_file, now, uuid_counter, origin, tampered, calls, lifecycle, inner>>

purge_by_retention ==
    LET state == load(control_plane_file, now)
        next == purge_by_retention_on(state, now)
    IN /\ control_plane_file' = save(next)
       /\ ret' = Ret("purge_by_retention", TRUE, None,
                     [removed_receipts |-> Len(state.receipts) - Len(next.receipts),
                      removed_approvals |-> Len(state.approvals) - Len(next.approvals)])
       /\ UNCHANGED <<audit_log, rollout_file, now, uuid_counter, origin, tampered, calls, lifecycle, inner>>

start_trial ==
    LET state == load(control_plane_file, now)
        next == [state EXCEPT !.access_state = AccessState_start_trial(@, now)]
    IN /\ control_plane_file' = save(next)
       /\ ret' = Ret("start_trial", TRUE, None, next.access_state)
       /\ UNCHANGED <<audit_log, rollout_file, now, uuid_counter, origin, tampered, calls, lifecycle, inner>>

set_paid_plan(plan) ==
    LET state == load(control_plane_file, now)
        next == [state EXCEPT !.access_state = AccessState_set_paid_plan(@, plan, now)]
    IN /\ control_plane_file' = save(next)
       /\ ret' = Ret("set_paid_plan", TRUE, plan, next.access_state)
       /\ UNCHANGED <<audit_log, rollout_file, now, uuid_counter, origin, tampered, calls, lifecycle, inner>>

set_active_view(view) ==
    LET state == load(control_plane_file, now)
    IN /\ IF ~can_access_view(state.access_state, view, now)
          THEN /\ control_plane_file' = file_after_load(control_plane_file, now)
               /\ ret' = Ret("set_active_view", FALSE, view, "current plan does not allow view")
          ELSE LET next == [state EXCEPT !.access_state.active_view = view,
                                         !.access_state.updated_at = to_rfc3339(now)]
               IN /\ control_plane_file' = save(next)
                  /\ ret' = Ret("set_active_view", TRUE, view, next.access_state)
       /\ UNCHANGED <<audit_log, rollout_file, now, uuid_counter, origin, tampered, calls, lifecycle, inner>>

\* the wall clock advances
Tick ==
    /\ now < MaxTime
    /\ now' = now + 1
    /\ UNCHANGED <<control_plane_file, audit_log, rollout_file, uuid_counter, ret, origin, tampered, calls, lifecycle, inner>>

Init ==
    /\ control_plane_file = <<>>
    /\ audit_log = <<>>
    /\ rollout_file = <<>>
    /\ now = 0
    /\ uuid_counter = 0
    /\ ret = Ret("init", TRUE, None, None)
    /\ origin = <<>>
    /\ tampered = 0
    /\ calls = NoCalls
    /\ lifecycle = LifecycleController_default
    /\ inner = RuntimeInner_new

EvaluateAction == \E request \in Requests(control_plane_file) : evaluate_action(request)

ResolveApproval ==
    \E id \in ApprovalIdsOf(control_plane_file) \cup {UnknownId},
       role \in ApproverRoles, approved \in BOOLEAN, reason \in Reasons :
        resolve_approval(id, role, approved, reason)

SetRetention == \E r \in RetentionDays, a \in RetentionDays : set_retention(r, a)

SetPaidPlan == \E plan \in Plans : set_paid_plan(plan)

SetActiveView == \E view \in Views : set_active_view(view)

\* The policy engine: evaluations and approval decisions while time passes.
Next ==
    \/ EvaluateAction
    \/ ResolveApproval
    \/ Tick

Spec == Init /\ [][Next]_vars

(***************************************************************************)
(* Properties of the policy engine                                         *)
(***************************************************************************)
\* the state an operation of this step loads
Loaded == load(control_plane_file, now)

\* this step is a call of evaluate_action; ret' holds its request and decision
EvaluateStep == ret'.op = "evaluate_action" /\ uuid_counter' > uuid_counter

ViewAccessible ==
    can_access_view(Loaded.access_state, Loaded.access_state.active_view, now)

SameAction(x, y) ==
    /\ x.actor_id = y.actor_id
    /\ x.actor_role = y.actor_role
    /\ x.action = y.action
    /\ x.resource = y.resource
    /\ x.destination = y.destination

\* request replays, with approval_id set, the request that created the approval
ReplayOf(approval, request) ==
    /\ request.approval_id = approval.id
    /\ approval.id \in DOMAIN origin
    /\ SameAction(request, origin[approval.id])

ApprovedByAdmin(approval) ==
    approval.status = "approved" /\ approval.decided_by = "admin"

IdsOf(records) == {records[i].id : i \in 1..Len(records)}

\* C3 as stated: once resolve_approval(A, "admin", true, _) has approved A,
\* every replay of the request that created A with approval_id = A is allowed
\* and does not require approval.
C3_ReplayAllowed ==
    [][ EvaluateStep =>
          \A i \in 1..Len(Loaded.approvals) :
             (ApprovedByAdmin(Loaded.approvals[i]) /\ ReplayOf(Loaded.approvals[i], ret'.request))
                => (ret'.value.allowed /\ ~ret'.value.requires_approval) ]_vars

\* C3 amended: the replay of an approval approved by "admin" is allowed and
\* does not require approval whenever the active view is accessible under the
\* access state at the time of the replay.
C3_ReplayAllowedWhenAccessible ==
    [][ (EvaluateStep /\ ViewAccessible) =>
          \A i \in 1..Len(Loaded.approvals) :
             (ApprovedByAdmin(Loaded.approvals[i]) /\ ReplayOf(Loaded.approvals[i], ret'.request))
                => (ret'.value.allowed /\ ~ret'.value.requires_approval) ]_vars

\* an approved approval has been replayed with the request that created it
C3_Witness ==
    /\ ret.op = "evaluate_action"
    /\ ret.value.reason = "approved action"
    /\ ret.value.allowed
    /\ \E i \in 1..Len(control_plane_file[1].approvals) :
          /\ ApprovedByAdmin(control_plane_file[1].approvals[i])
          /\ ReplayOf(control_plane_file[1].approvals[i], ret.request)

\* request names a stored approval whose snapshot differs from it
Mismatched(approval, request) ==
    request.approval_id = approval.id /\ ~SameAction(approval, request)

\* the request of the stored approval, replayed with its approval_id
ExactReplay(approval) ==
    [ actor_id |-> approval.actor_id, actor_role |-> approval.actor_role,
      action |-> approval.action, resource |-> approval.resource,
      destination |-> approval.destination, approval_id |-> approval.id,
      occurred_at |-> None, context |-> approval.context ]

\* what the mismatch arm owes: the denial, the approvals untouched, and the
\* exact replay afterwards still answered with the stored verdict
MismatchDenied(approval) ==
    /\ ~ret'.value.allowed
    /\ ret'.value.reason = "approval does not match action request"
    /\ control_plane_file'[1].approvals = Loaded.approvals
    /\ LET before == evaluate_action_on(Loaded, ExactReplay(approval), now, uuid_counter).decision
           after == evaluate_action_on(control_plane_file'[1], ExactReplay(approval), now,
                                       uuid_counter').decision
       IN /\ after.allowed = before.allowed
          /\ after.requires_approval = before.requires_approval
          /\ after.reason = before.reason

\* C4 as stated: every request that reuses the id of a stored approval but
\* differs from it in actor, action, resource or destination is denied with
\* "approval does not match action request" and leaves the approval as it was.
C4_MismatchDenied ==
    [][ EvaluateStep =>
          \A i \in 1..Len(Loaded.approvals) :
             Mismatched(Loaded.approvals[i], ret'.request)
                => MismatchDenied(Loaded.approvals[i]) ]_vars

\* the first enabled rule matching the request requires approval
GovernedRequest(request) ==
    /\ find_rule(Loaded.policy_rules, request) # 0
    /\ Loaded.policy_rules[find_rule(Loaded.policy_rules, request)].require_approval

\* C4 amended: while the active view is accessible, a request whose first
\* matching enabled rule requires approval and that reuses the id of a stored
\* approval but differs from it in actor, action, resource or destination is
\* denied with "approval does not match action request"; the approvals are
\* left unchanged and the exact replay still gets the stored verdict.
C4_GovernedMismatchDenied ==
    [][ (EvaluateStep /\ ViewAccessible /\ GovernedRequest(ret'.request)) =>
          \A i \in 1..Len(Loaded.approvals) :
             Mismatched(Loaded.approvals[i], ret'.request)
                => MismatchDenied(Loaded.approvals[i]) ]_vars

\* a governed request reused the id of an approval made for another resource
C4_Witness ==
    /\ ret.op = "evaluate_action"
    /\ ret.value.reason = "approval does not match action request"
    /\ \E i \in 1..Len(control_plane_file[1].approvals) :
          /\ control_plane_file[1].approvals[i].id = ret.request.approval_id
          /\ control_plane_file[1].approvals[i].resource # ret.request.resource
          /\ control_plane_file[1].approvals[i].status = "pending"

\* what the new-approval arm owes
NewApprovalCreated ==
    LET before == Loaded.approvals
        after == control_plane_file'[1].approvals
        id == ret'.value.approval_id
    IN /\ ~ret'.value.allowed
       /\ ret'.value.requires_approval
       /\ id # None
       /\ id \notin IdsOf(before)
       /\ Len(after) = Len(before) + 1
       /\ SubSeq(after, 1, Len(before)) = before
       /\ Cardinality({i \in 1..Len(after) : after[i].id = id}) = 1
       /\ after[Len(after)].id = id
       /\ after[Len(after)].status = "pending"
       /\ SameAction(after[Len(after)], ret'.request)

\* C5 as stated: every request whose first matching enabled rule requires
\* approval and which carries no approval_id is answered allowed = false,
\* requires_approval = true with a fresh approval id, and exactly one new
\* Pending approval with that id, a snapshot of the request, is stored.
C5_NewApproval ==
    [][ (EvaluateStep /\ GovernedRequest(ret'.request) /\ ret'.request.approval_id = None)
          => NewApprovalCreated ]_vars

\* C5 amended: the same, for requests evaluated while the active view is
\* accessible under the access state.
C5_NewApprovalWhenAccessible ==
    [][ (EvaluateStep /\ ViewAccessible /\ GovernedRequest(ret'.request)
            /\ ret'.request.approval_id = None)
          => NewApprovalCreated ]_vars

\* an approval has been created after an earlier evaluation had drawn a uuid
C5_Witness ==
    /\ ret.op = "evaluate_action"
    /\ ret.value.reason = "action requires approval"
    /\ ret.value.requires_approval
    /\ Len(control_plane_file[1].receipts) = 2
    /\ \E i \in 1..Len(control_plane_file[1].approvals) :
          /\ control_plane_file[1].approvals[i].id = ret.value.approval_id
          /\ control_plane_file[1].approvals[i].status = "pending"
          /\ control_plane_file[1].approvals[i].id # control_plane_file[1].receipts[2].id

\* C6 as stated: every request that matches no enabled rule is denied with
\* reason "no matching policy rule".
C6_NoRuleDenied ==
    [][ (EvaluateStep /\ find_rule(Loaded.policy_rules, ret'.request) = 0)
          => (~ret'.value.allowed /\ ret'.value.reason = "no matching policy rule") ]_vars

\* C6 amended: every request that matches no enabled rule is denied, with
\* reason "no matching policy rule" whenever the active view is accessible.
C6_NoRuleDeniedWhenAccessible ==
    [][ (EvaluateStep /\ find_rule(Loaded.policy_rules, ret'.request) = 0)
          => /\ ~ret'.value.allowed
             /\ ViewAccessible => ret'.value.reason = "no matching policy rule" ]_vars

\* a request that no rule matches has been denied for that reason
C6_Witness ==
    /\ ret.op = "evaluate_action"
    /\ ret.value.reason = "no matching policy rule"
    /\ ~ret.value.allowed
    /\ find_rule(control_plane_file[1].policy_rules, ret.request) = 0

\* C7: every evaluate_action call puts exactly one new receipt at the front of
\* the persisted receipts, keeping the earlier ones in order behind it up to
\* the bound; decision.receipt_id is the id of that receipt, and its result is
\* Allowed iff the decision is allowed, PendingApproval iff it requires
\* approval, Denied otherwise.
C7_OneReceiptPerEvaluation ==
    [][ EvaluateStep =>
          LET before == Loaded.receipts
              after == control_plane_file'[1].receipts
              d == ret'.value
          IN /\ Len(after) = IF Len(before) < ReceiptCap THEN Len(before) + 1 ELSE ReceiptCap
             /\ after[1].id = d.receipt_id
             /\ d.receipt_id \notin IdsOf(before)
             /\ SubSeq(after, 2, Len(after)) = SubSeq(before, 1, Len(after) - 1)
             /\ SameAction(after[1], ret'.request)
             /\ after[1].reason = d.reason
             /\ (after[1].result = "allowed") <=> d.allowed
             /\ (after[1].result = "pending_approval") <=> d.requires_approval
             /\ (after[1].result = "denied") <=> (~d.allowed /\ ~d.requires_approval)
             /\ after[1].result \in {"allowed", "pending_approval", "denied"} ]_vars

\* the ledger is full and holds receipts of two different results
C7_Witness ==
    /\ ret.op = "evaluate_action"
    /\ Len(control_plane_file[1].receipts) = ReceiptCap
    /\ control_plane_file[1].receipts[1].id = ret.value.receipt_id
    /\ control_plane_file[1].receipts[1].result # control_plane_file[1].receipts[2].result
    /\ uuid_counter > ReceiptCap

\* C10: once the status of an approval has left Pending, no operation changes
\* its status, decided_by, decided_at or reason.
C10_ApprovalTerminal ==
    [][ \A i \in 1..Len(Loaded.approvals) :
          Loaded.approvals[i].status # "pending" =>
             \A j \in 1..Len(load(control_plane_file', now').approvals) :
                LET a == Loaded.approvals[i]
                    b == load(control_plane_file', now').approvals[j]
                IN b.id = a.id =>
                     /\ b.status = a.status
                     /\ b.decided_by = a.decided_by
                     /\ b.decided_at = a.decided_at
                     /\ b.reason = a.reason ]_vars

(***************************************************************************)
(* Audit chain                                                             *)
(***************************************************************************)
\* A hash text is a sequence: <<"genesis">> for the literal, <<>> for the empty
\* text an event arrives with, and the digest below.
\* serde_json::to_string of a json! object: the text is settled by the keys and
\* values of the object and settles them
to_json(object) == <<"json", object>>

\* SHA-256 in lowercase hex; distinct inputs have distinct digests
sha256_hex(input) == <<"sha256", input>>

Genesis == <<"genesis">>

\* bug: prev_hash is left out of the hashed object
unsigned_for_append_without_prev_hash(event, prev_hash) ==
    [ id |-> event.id, timestamp |-> event.timestamp, actor_id |-> event.actor_id,
      actor_role |-> event.actor_role, action |-> event.action,
      resource |-> event.resource, destination |-> event.destination,
      result |-> event.result, reason |-> event.reason,
      receipt_id |-> event.receipt_id, approval_id |-> event.approval_id ]

\* the object append_audit_event hashes
unsigned_for_append(event, prev_hash) ==
    [ id |-> event.id, timestamp |-> event.timestamp, actor_id |-> event.actor_id,
      actor_role |-> event.actor_role, action |-> event.action,
      resource |-> event.resource, destination |-> event.destination,
      result |-> event.result, reason |-> event.reason,
      receipt_id |-> event.receipt_id, approval_id |-> event.approval_id,
      prev_hash |-> prev_hash ]

\* the object verify_audit_log hashes
unsigned_for_verify(event) ==
    [ id |-> event.id, timestamp |-> event.timestamp, actor_id |-> event.actor_id,
      actor_role |-> event.actor_role, action |-> event.action,
      resource |-> event.resource, destination |-> event.destination,
      result |-> event.result, reason |-> event.reason,
      receipt_id |-> event.receipt_id, approval_id |-> event.approval_id,
      prev_hash |-> event.prev_hash ]

\* append_audit_event on the events read from the file: the file afterwards
append_audit_event_on(events, event) ==
    LET prev_hash == IF Len(events) = 0 THEN Genesis ELSE events[Len(events)].hash
        hash == sha256_hex(to_json(unsigned_for_append(event, prev_hash)))
    IN Append(events, [event EXCEPT !.prev_hash = prev_hash, !.hash = hash])

AuditLogVerification(valid, entries, last_hash, error) ==
    [valid |-> valid, entries |-> entries, last_hash |-> last_hash, error |-> error]

\* bug: the loop checks the links and never recomputes a hash
RECURSIVE verify_links_only(_, _, _)
verify_links_only(events, i, prev_hash) ==
    IF i > Len(events)
    THEN AuditLogVerification(TRUE, Len(events), <<prev_hash>>, None)
    ELSE IF events[i].prev_hash # prev_hash
    THEN AuditLogVerification(FALSE, Len(events), <<prev_hash>>,
             "chain mismatch at event " \o events[i].id)
    ELSE verify_links_only(events, i + 1, events[i].hash)

\* bug: on a mismatch the report carries the offending event's own hash
RECURSIVE verify_events_reporting_offender(_, _, _)
verify_events_reporting_offender(events, i, prev_hash) ==
    IF i > Len(events)
    THEN AuditLogVerification(TRUE, Len(events), <<prev_hash>>, None)
    ELSE IF events[i].prev_hash # prev_hash
    THEN AuditLogVerification(FALSE, Len(events), <<events[i].hash>>,
             "chain mismatch at event " \o events[i].id)
    ELSE IF sha256_hex(to_json(unsigned_for_verify(events[i]))) # events[i].hash
    THEN AuditLogVerification(FALSE, Len(events), <<events[i].hash>>,
             "hash mismatch at event " \o events[i].id)
    ELSE verify_events_reporting_offender(events, i + 1, events[i].hash)

\* bug: the loop recomputes every hash and never compares the links
RECURSIVE verify_events_unchained(_, _, _)
verify_events_unchained(events, i, prev_hash) ==
    IF i > Len(events)
    THEN AuditLogVerification(TRUE, Len(events), <<prev_hash>>, None)
    ELSE IF sha256_hex(to_json(unsigned_for_verify(events[i]))) # events[i].hash
    THEN AuditLogVerification(FALSE, Len(events), <<prev_hash>>,
             "hash mismatch at event " \o events[i].id)
    ELSE verify_events_unchained(events, i + 1, events[i].hash)

\* the loop of verify_audit_log from event i on, prev_hash being the running
\* expectation
RECURSIVE verify_events(_, _, _)
verify_events(events, i, prev_hash) ==
    IF i > Len(events)
    THEN AuditLogVerification(TRUE, Len(events), <<prev_hash>>, None)
    ELSE IF events[i].prev_hash # prev_hash
    THEN AuditLogVerification(FALSE, Len(events), <<prev_hash>>,
             "chain mismatch at event " \o events[i].id)
    ELSE IF sha256_hex(to_json(unsigned_for_verify(events[i]))) # events[i].hash
    THEN AuditLogVerification(FALSE, Len(events), <<prev_hash>>,
             "hash mismatch at event " \o events[i].id)
    ELSE verify_events(events, i + 1, events[i].hash)

verify_audit_log_on(events) ==
    IF Len(events) = 0
    THEN AuditLogVerification(TRUE, 0, <<>>, None)
    ELSE verify_events(events, 1, Genesis)

\* events handed to append_audit_event; prev_hash and hash arrive empty
AuditEvents ==
    { [ id |-> id, timestamp |-> "T0", actor_id |-> "local-user",
        actor_role |-> "owner", action |-> "release.promote",
        resource |-> "profile:default", destination |-> "workspace",
        result |-> result, reason |-> "policy allowed", receipt_id |-> "uuid-r",
        approval_id |-> None, prev_hash |-> <<>>, hash |-> <<>> ] :
      id \in {"audit-1", "audit-2"}, result \in {"allowed", "denied"} }

HashedFields ==
    { "id", "timestamp", "actor_id", "actor_role", "action", "resource",
      "destination", "result", "reason", "receipt_id", "approval_id", "prev_hash" }

append_audit_event(event) ==
    /\ Len(audit_log) < MaxLog
    /\ audit_log' = append_audit_event_on(audit_log, event)
    /\ ret' = Ret("append_audit_event", TRUE, event.id, None)
    /\ UNCHANGED <<control_plane_file, rollout_file, now, uuid_counter, origin, tampered, calls, lifecycle, inner>>

verify_audit_log ==
    /\ ret' = Ret("verify_audit_log", TRUE, None, verify_audit_log_on(audit_log))
    /\ UNCHANGED <<control_plane_file, audit_log, rollout_file, now, uuid_counter, origin, tampered, calls, lifecycle, inner>>

\* what an edit of the file can put in field f
TamperValues(events, f) ==
    IF f = "prev_hash"
    THEN {Genesis, <<"forged">>} \cup {events[i].hash : i \in 1..Len(events)}
    ELSE IF f = "id" THEN {"audit-1", "audit-2", "forged"}
    ELSE IF f = "result" THEN {"allowed", "denied", "forged"}
    ELSE {"forged"}

\* One hashed field of one event of the file is rewritten out of band; the
\* stored hashes stay as they are.
TamperAuditEvent ==
    /\ tampered = 0
    /\ \E k \in 1..Len(audit_log), f \in HashedFields :
       \E v \in TamperValues(audit_log, f) :
          /\ audit_log[k][f] # v
          /\ audit_log' = [audit_log EXCEPT ![k][f] = v]
          /\ tampered' = k
    /\ ret' = Ret("tamper", TRUE, None, None)
    /\ UNCHANGED <<control_plane_file, rollout_file, now, uuid_counter, origin, calls, lifecycle, inner>>

AppendAuditEvent == \E event \in AuditEvents : append_audit_event(event)

\* The audit chain under sequential appends.
NextAudit ==
    \/ AppendAuditEvent
    \/ verify_audit_log

SpecAudit == Init /\ [][NextAudit]_vars

\* The audit chain with one out-of-band edit of the file.
NextTamper ==
    \/ AppendAuditEvent
    \/ TamperAuditEvent
    \/ verify_audit_log

SpecTamper == Init /\ [][NextTamper]_vars

(***************************************************************************)
(* Properties of the audit chain                                           *)
(***************************************************************************)
\* object carries every field of the event but hash, prev_hash included
CoversAllButHash(object, event) ==
    /\ DOMAIN object = DOMAIN event \ {"hash"}
    /\ "prev_hash" \in DOMAIN object
    /\ \A f \in DOMAIN object : object[f] = event[f]

\* C8: in a log built by sequential append_audit_event calls the first event's
\* prev_hash is "genesis", every later event's prev_hash is the hash of the
\* event before it, and every hash is the digest of all fields of its event
\* except hash itself, prev_hash included.
C8_ChainLinked ==
    /\ Len(audit_log) > 0 => audit_log[1].prev_hash = <<"genesis">>
    /\ \A i \in 2..Len(audit_log) : audit_log[i].prev_hash = audit_log[i - 1].hash
    /\ \A i \in 1..Len(audit_log) :
          /\ CoversAllButHash(unsigned_for_verify(audit_log[i]), audit_log[i])
          /\ audit_log[i].hash = sha256_hex(to_json(unsigned_for_verify(audit_log[i])))

\* three events have been appended, two of them alike in every field handed in
C8_Witness ==
    /\ Len(audit_log) = 3
    /\ audit_log[2].prev_hash = audit_log[1].hash
    /\ audit_log[3].id = audit_log[2].id
    /\ audit_log[3].result = audit_log[2].result
    /\ audit_log[3].hash # audit_log[2].hash

\* C9: verify_audit_log answers valid = true for a log built by sequential
\* appends; once one hashed field of one event has been altered without
\* recomputing hashes it answers valid = false with an error that names the id
\* of the altered event.
C9_TamperDetected ==
    ret.op = "verify_audit_log" =>
        IF tampered = 0
        THEN ret.value.valid /\ ret.value.error = None
        ELSE /\ ~ret.value.valid
             /\ ret.value.error \in
                   { "chain mismatch at event " \o audit_log[tampered].id,
                     "hash mismatch at event " \o audit_log[tampered].id }

\* the action of an event that is not the last was altered and the log verified
C9_Witness ==
    /\ ret.op = "verify_audit_log"
    /\ tampered # 0
    /\ tampered < Len(audit_log)
    /\ audit_log[tampered].action = "forged"
    /\ ret.value.error = "hash mismatch at event " \o audit_log[tampered].id

(***************************************************************************)
(* Release rollout                                                         *)
(*                                                                         *)
(* Texts the code takes apart are sequences: a checksum is the sequence of *)
(* its characters, a signer entry or a signature value is the sequence of  *)
(* its parts around the first ':', the empty text is <<>>.  A base64 blob  *)
(* is a record of what decoding it gives.  An Option of a release or of a  *)
(* text is <<>> for None and <<x>> for Some(x).  No input carries leading  *)
(* or trailing blanks or upper-case role names but where listed.           *)
(***************************************************************************)
Sha256HexLen == 64
KeyLen == 32
SignatureLen == 64

HexDigits ==
    { "0", "1", "2", "3", "4", "5", "6", "7", "8", "9",
      "a", "b", "c", "d", "e", "f", "A", "B", "C", "D", "E", "F" }

AuditIds == [t \in Clock |-> "audit-" \o ToString(t)]

to_ascii_lowercase(raw) ==
    CASE raw = "Operator" -> "operator"
      [] raw = "Owner" -> "owner"
      [] OTHER -> raw

normalize_actor_role(role) ==
    LET raw == IF role = None THEN "admin" ELSE role
        lowered == to_ascii_lowercase(raw)
    IN CASE lowered \in {"owner", "admin"} -> "owner"
         [] lowered = "manager" -> "admin"
         [] lowered \in {"operator", "user"} -> "operator"
         [] lowered \in {"viewer", "observer"} -> "viewer"
         [] lowered = "" -> "owner"
         [] OTHER -> lowered

\* bug: pilot goes straight to all
next_rollout_ring_skipping(ring) ==
    CASE ring = "pilot" -> "all"
      [] ring = "group" -> "all"
      [] ring = "all" -> "all"

next_rollout_ring(ring) ==
    CASE ring = "pilot" -> "group"
      [] ring = "group" -> "all"
      [] ring = "all" -> "all"

RolloutState_default(t) ==
    [ version |-> 1, current_release |-> <<>>, previous_release |-> <<>>,
      staged_release |-> <<>>, signature_required |-> FALSE,
      trusted_signers |-> <<>>, last_verified_signer |-> None,
      last_promoted_at |-> None, last_verification_error |-> None,
      updated_at |-> to_rfc3339(t) ]

load_json_or_default(file, t) ==
    IF file = <<>> THEN RolloutState_default(t) ELSE file[1]

decode_base64_flexible(blob) ==
    [ok |-> blob.base64, bytes |-> blob, error |-> "failed to decode base64 payload"]

validate_sha256_hex(raw, field) ==
    IF Len(raw) # Sha256HexLen \/ ~(\A i \in 1..Len(raw) : raw[i] \in HexDigits)
    THEN [ok |-> FALSE,
          error |-> field \o " must be a lowercase/uppercase 64-char SHA-256 hex string"]
    ELSE [ok |-> TRUE, error |-> None]

SignerError(index, text) ==
    [ ok |-> FALSE, key_id |-> "", key |-> "", point |-> FALSE,
      error |-> "trusted_signers[" \o ToString(index) \o "] " \o text ]

\* raw is <<key>> or <<key id, key>>; index counts from 0
parse_signer_entry(raw, index) ==
    IF Len(raw) = 0 THEN SignerError(index, "is empty")
    ELSE LET key_id == IF Len(raw) = 2 THEN raw[1]
                       ELSE "signer-" \o ToString(index + 1)
             decoded == decode_base64_flexible(raw[Len(raw)])
         IN IF key_id = "" THEN SignerError(index, "key id is empty")
            ELSE IF ~decoded.ok THEN SignerError(index, "key is not valid base64")
            ELSE IF decoded.bytes.len # KeyLen
            THEN SignerError(index, "key must decode to 32 bytes")
            ELSE [ ok |-> TRUE, key_id |-> key_id, key |-> decoded.bytes.key,
                   point |-> decoded.bytes.point, error |-> None ]

SignatureError(text) ==
    [ok |-> FALSE, key_hint |-> None, signature |-> [key |-> "", message |-> <<>>],
     error |-> text]

SignatureOf(key_hint, bytes) ==
    IF bytes.len # SignatureLen
    THEN SignatureError("signature must decode to 64 bytes")
    ELSE [ ok |-> TRUE, key_hint |-> key_hint,
           signature |-> [key |-> bytes.key, message |-> bytes.message],
           error |-> None ]

\* raw is <<>>, <<signature>> or <<key hint, signature>>
parse_signature_value(raw) ==
    IF Len(raw) = 0 THEN SignatureError("signature is empty")
    ELSE IF Len(raw) = 2 /\ decode_base64_flexible(raw[2]).ok
    THEN SignatureOf(IF raw[1] # "" THEN raw[1] ELSE None,
                     decode_base64_flexible(raw[2]).bytes)
    ELSE IF Len(raw) = 2 \/ ~decode_base64_flexible(raw[1]).ok
    THEN SignatureError("failed to decode base64 payload")
    ELSE SignatureOf(None, decode_base64_flexible(raw[1]).bytes)

release_signing_payload(release) ==
    << "release_id=", release.release_id,
       "\nversion=", release.version,
       "\nchecksum_sha256=", release.checksum_sha256,
       "\nsbom_checksum_sha256=",
       IF release.sbom_checksum_sha256 = <<>> THEN <<>>
       ELSE release.sbom_checksum_sha256[1],
       "\nring=", release.ring >>

\* Ed25519: a signature validates under the key that made it, over the message
\* it was made for
VerifyingKey_verify(key, message, signature) ==
    signature.key = key /\ signature.message = message

VerifyResult(ok, signer, error) == [ok |-> ok, signer |-> signer, error |-> error]

\* the loop of verify_release_signature from signer i on (i counts from 1)
RECURSIVE verify_with_signers(_, _, _, _, _)
verify_with_signers(signers, i, key_hint, message, signature) ==
    IF i > Len(signers)
    THEN VerifyResult(FALSE, None,
             "release signature verification failed for staged release")
    ELSE LET signer == parse_signer_entry(signers[i], i - 1)
         IN IF ~signer.ok THEN VerifyResult(FALSE, None, signer.error)
            ELSE IF key_hint # None /\ key_hint # signer.key_id
            THEN verify_with_signers(signers, i + 1, key_hint, message, signature)
            ELSE IF ~signer.point
            THEN VerifyResult(FALSE, None,
                     "trusted signer '" \o signer.key_id \o "' has invalid key material")
            ELSE IF VerifyingKey_verify(signer.key, message, signature)
            THEN VerifyResult(TRUE, signer.key_id, None)
            ELSE verify_with_signers(signers, i + 1, key_hint, message, signature)

\* bug: the signature is demanded whatever signature_required says
verify_release_signature_always(rollout, release) ==
    LET checksum == validate_sha256_hex(release.checksum_sha256, "checksum_sha256")
        sbom == IF release.sbom_checksum_sha256 = <<>> THEN [ok |-> TRUE, error |-> None]
                ELSE validate_sha256_hex(release.sbom_checksum_sha256[1],
                                         "sbom_checksum_sha256")
        parsed == parse_signature_value(release.signature[1])
    IN IF ~checksum.ok THEN VerifyResult(FALSE, None, checksum.error)
       ELSE IF ~sbom.ok THEN VerifyResult(FALSE, None, sbom.error)
       ELSE IF release.signature = <<>>
       THEN VerifyResult(FALSE, None, "release signature is required but missing")
       ELSE IF ~parsed.ok THEN VerifyResult(FALSE, None, parsed.error)
       ELSE IF Len(rollout.trusted_signers) = 0
       THEN VerifyResult(FALSE, None,
                "signature_required=true but trusted_signers is empty")
       ELSE verify_with_signers(rollout.trusted_signers, 1, parsed.key_hint,
                release_signing_payload(release), parsed.signature)

verify_release_signature(rollout, release) ==
    LET checksum == validate_sha256_hex(release.checksum_sha256, "checksum_sha256")
        sbom == IF release.sbom_checksum_sha256 = <<>> THEN [ok |-> TRUE, error |-> None]
                ELSE validate_sha256_hex(release.sbom_checksum_sha256[1],
                                         "sbom_checksum_sha256")
        parsed == parse_signature_value(release.signature[1])
    IN IF ~checksum.ok THEN VerifyResult(FALSE, None, checksum.error)
       ELSE IF ~sbom.ok THEN VerifyResult(FALSE, None, sbom.error)
       ELSE IF ~rollout.signature_required
       THEN VerifyResult(TRUE, "signature_not_required", None)
       ELSE IF release.signature = <<>>
       THEN VerifyResult(FALSE, None, "release signature is required but missing")
       ELSE IF ~parsed.ok THEN VerifyResult(FALSE, None, parsed.error)
       ELSE IF Len(rollout.trusted_signers) = 0
       THEN VerifyResult(FALSE, None,
                "signature_required=true but trusted_signers is empty")
       ELSE verify_with_signers(rollout.trusted_signers, 1, parsed.key_hint,
                release_signing_payload(release), parsed.signature)

rollout_state_load(file, t) ==
    LET state == load_json_or_default(file, t)
        has_valid_signer ==
            \E i \in 1..Len(state.trusted_signers) :
                parse_signer_entry(state.trusted_signers[i], i - 1).ok
    IN IF state.signature_required /\ ~has_valid_signer
       THEN [state EXCEPT
                !.signature_required = FALSE,
                !.trusted_signers = <<>>,
                !.last_verification_error =
                    "legacy signer configuration detected; signing policy reset and requires reconfiguration"]
       ELSE state

rollout_state_save(state) == <<state>>

\* bug: a denial is not turned into Err, only a pending approval is
evaluate_policy_gate_on_passing_denials(file, events, t, uuid, actor_id, actor_role, action, resource, destination, approval_id) ==
    LET actor_id_value == IF actor_id = None THEN "local-user" ELSE actor_id
        actor_role_value == normalize_actor_role(actor_role)
        request == [ actor_id |-> actor_id_value, actor_role |-> actor_role_value,
                     action |-> action, resource |-> resource,
                     destination |-> destination, approval_id |-> approval_id,
                     occurred_at |-> to_rfc3339(t), context |-> "{}" ]
        r == evaluate_action_on(load(file, t), request, t, uuid)
        decision == r.decision
        result == IF decision.allowed THEN "allowed"
                  ELSE IF decision.requires_approval THEN "pending_approval"
                  ELSE "denied"
        event == [ id |-> AuditIds[t], timestamp |-> to_rfc3339(t),
                   actor_id |-> actor_id_value, actor_role |-> actor_role_value,
                   action |-> action, resource |-> resource,
                   destination |-> destination, result |-> result,
                   reason |-> decision.reason, receipt_id |-> decision.receipt_id,
                   approval_id |-> decision.approval_id,
                   prev_hash |-> <<>>, hash |-> <<>> ]
    IN [ control_plane_file |-> save(r.state),
         audit_log |-> append_audit_event_on(events, event),
         uuid |-> r.uuid,
         request |-> request,
         decision |-> decision,
         created |-> Len(r.state.approvals) > Len(load(file, t).approvals),
         ok |-> ~decision.requires_approval,
         error |-> IF decision.requires_approval
                   THEN "action requires approval (approval_id: "
                        \o (IF decision.approval_id = None THEN ""
                            ELSE decision.approval_id)
                        \o ", receipt_id: " \o decision.receipt_id \o ")"
                   ELSE "action denied by policy: " \o decision.reason
                        \o " (receipt_id: " \o decision.receipt_id \o ")" ]

\* evaluate_policy_gate on the files as they are: the files afterwards, the
\* decision and what the gate returns
evaluate_policy_gate_on(file, events, t, uuid, actor_id, actor_role, action, resource, destination, approval_id) ==
    LET actor_id_value == IF actor_id = None THEN "local-user" ELSE actor_id
        actor_role_value == normalize_actor_role(actor_role)
        request == [ actor_id |-> actor_id_value, actor_role |-> actor_role_value,
                     action |-> action, resource |-> resource,
                     destination |-> destination, approval_id |-> approval_id,
                     occurred_at |-> to_rfc3339(t), context |-> "{}" ]
        r == evaluate_action_on(load(file, t), request, t, uuid)
        decision == r.decision
        result == IF decision.allowed THEN "allowed"
                  ELSE IF decision.requires_approval THEN "pending_approval"
                  ELSE "denied"
        event == [ id |-> AuditIds[t], timestamp |-> to_rfc3339(t),
                   actor_id |-> actor_id_value, actor_role |-> actor_role_value,
                   action |-> action, resource |-> resource,
                   destination |-> destination, result |-> result,
                   reason |-> decision.reason, receipt_id |-> decision.receipt_id,
                   approval_id |-> decision.approval_id,
                   prev_hash |-> <<>>, hash |-> <<>> ]
    IN [ control_plane_file |-> save(r.state),
         audit_log |-> append_audit_event_on(events, event),
         uuid |-> r.uuid,
         request |-> request,
         decision |-> decision,
         created |-> Len(r.state.approvals) > Len(load(file, t).approvals),
         ok |-> decision.allowed /\ ~decision.requires_approval,
         error |-> IF decision.requires_approval
                   THEN "action requires approval (approval_id: "
                        \o (IF decision.approval_id = None THEN ""
                            ELSE decision.approval_id)
                        \o ", receipt_id: " \o decision.receipt_id \o ")"
                   ELSE "action denied by policy: " \o decision.reason
                        \o " (receipt_id: " \o decision.receipt_id \o ")" ]

\* the billing file is kept by the billing commands; what the check finds in
\* it is an input of each command
Entitlements == {"entitled", "blocked"}

ensure_entitlement_for_feature(entitlement, feature) ==
    IF entitlement = "entitled" THEN [ok |-> TRUE, error |-> None]
    ELSE [ok |-> FALSE,
          error |-> "feature '" \o feature
                    \o "' requires 'professional' tier (current: 'basic')"]

Outcome(ok, saved, state, error) ==
    [ok |-> ok, saved |-> saved, state |-> state, error |-> error]

\* bug: the signature is verified against the trusted signers when staging
rollout_stage_release_on_verifying(file, request, t) ==
    LET checksum == validate_sha256_hex(request.checksum_sha256, "checksum_sha256")
        sbom == IF request.sbom_checksum_sha256 = <<>> THEN [ok |-> TRUE, error |-> None]
                ELSE validate_sha256_hex(request.sbom_checksum_sha256[1],
                                         "sbom_checksum_sha256")
        rollout == rollout_state_load(file, t)
        staged == [ release_id |-> request.release_id, version |-> request.version,
                    checksum_sha256 |-> request.checksum_sha256,
                    signature |-> request.signature,
                    sbom_checksum_sha256 |-> request.sbom_checksum_sha256,
                    ring |-> request.ring, staged_at |-> to_rfc3339(t) ]
        verified == verify_release_signature(rollout, staged)
    IN IF ~checksum.ok
       THEN Outcome(FALSE, FALSE, rollout, "invalid rollout checksum: " \o checksum.error)
       ELSE IF ~sbom.ok
       THEN Outcome(FALSE, FALSE, rollout, "invalid rollout sbom checksum: " \o sbom.error)
       ELSE IF ~verified.ok
       THEN Outcome(FALSE, FALSE, rollout,
                "invalid rollout signature payload: " \o verified.error)
       ELSE Outcome(TRUE, TRUE,
                [rollout EXCEPT !.staged_release = <<staged>>,
                                !.updated_at = to_rfc3339(t)], None)

\* rollout_stage_release after the gate and the entitlement check
rollout_stage_release_on(file, request, t) ==
    LET checksum == validate_sha256_hex(request.checksum_sha256, "checksum_sha256")
        sbom == IF request.sbom_checksum_sha256 = <<>> THEN [ok |-> TRUE, error |-> None]
                ELSE validate_sha256_hex(request.sbom_checksum_sha256[1],
                                         "sbom_checksum_sha256")
        rollout == rollout_state_load(file, t)
        signature == IF request.signature = <<>> THEN [ok |-> TRUE, error |-> None]
                     ELSE parse_signature_value(request.signature[1])
        staged == [ release_id |-> request.release_id, version |-> request.version,
                    checksum_sha256 |-> request.checksum_sha256,
                    signature |-> request.signature,
                    sbom_checksum_sha256 |-> request.sbom_checksum_sha256,
                    ring |-> request.ring, staged_at |-> to_rfc3339(t) ]
    IN IF ~checksum.ok
       THEN Outcome(FALSE, FALSE, rollout, "invalid rollout checksum: " \o checksum.error)
       ELSE IF ~sbom.ok
       THEN Outcome(FALSE, FALSE, rollout, "invalid rollout sbom checksum: " \o sbom.error)
       ELSE IF ~signature.ok
       THEN Outcome(FALSE, FALSE, rollout,
                "invalid rollout signature payload: " \o signature.error)
       ELSE Outcome(TRUE, TRUE,
                [rollout EXCEPT !.staged_release = <<staged>>,
                                !.updated_at = to_rfc3339(t)], None)

\* bug: the signer entries are stored as given
rollout_set_signing_policy_on_unchecked(file, request, t) ==
    LET rollout == rollout_state_load(file, t)
    IN Outcome(TRUE, TRUE,
           [rollout EXCEPT !.signature_required = request.signature_required,
                           !.trusted_signers = request.trusted_signers,
                           !.last_verification_error = None,
                           !.updated_at = to_rfc3339(t)], None)

\* rollout_set_signing_policy after the gate and the entitlement check
rollout_set_signing_policy_on(file, request, t) ==
    LET rollout == rollout_state_load(file, t)
        bad == { i \in 1..Len(request.trusted_signers) :
                   ~parse_signer_entry(request.trusted_signers[i], i - 1).ok }
        first == CHOOSE i \in bad : \A j \in bad : i <= j
    IN IF request.signature_required /\ Len(request.trusted_signers) = 0
       THEN Outcome(FALSE, FALSE, rollout,
                "signature_required=true requires at least one trusted signer")
       ELSE IF bad # {}
       THEN Outcome(FALSE, FALSE, rollout,
                "invalid trusted signer configuration: "
                \o parse_signer_entry(request.trusted_signers[first], first - 1).error)
       ELSE Outcome(TRUE, TRUE,
                [rollout EXCEPT !.signature_required = request.signature_required,
                                !.trusted_signers = request.trusted_signers,
                                !.last_verification_error = None,
                                !.updated_at = to_rfc3339(t)], None)

\* bug: the release that was current is not kept as previous_release
rollout_promote_on_forgetting(file, t) ==
    LET loaded == rollout_state_load(file, t)
        rollout == [loaded EXCEPT !.staged_release = <<>>]
        verified == verify_release_signature(rollout, loaded.staged_release[1])
    IN IF loaded.staged_release # <<>>
       THEN IF ~verified.ok
            THEN Outcome(FALSE, TRUE,
                     [rollout EXCEPT !.last_verification_error = verified.error,
                                     !.updated_at = to_rfc3339(t)],
                     "staged release failed signature verification: "
                     \o verified.error)
            ELSE Outcome(TRUE, TRUE,
                     [rollout EXCEPT !.last_verified_signer = verified.signer,
                                     !.last_verification_error = None,
                                     !.current_release = loaded.staged_release,
                                     !.last_promoted_at = to_rfc3339(t),
                                     !.updated_at = to_rfc3339(t)], None)
       ELSE IF loaded.current_release # <<>>
       THEN Outcome(TRUE, TRUE,
                [rollout EXCEPT !.current_release[1].ring = next_rollout_ring(@),
                                !.last_promoted_at = to_rfc3339(t),
                                !.updated_at = to_rfc3339(t)], None)
       ELSE Outcome(FALSE, FALSE, rollout,
                "no staged or current release available to promote")

\* bug: the promotion is carried out whatever the verification said
rollout_promote_on_unverified(file, t) ==
    LET rollout == rollout_state_load(file, t)
    IN IF rollout.staged_release # <<>>
       THEN Outcome(TRUE, TRUE,
                [rollout EXCEPT !.staged_release = <<>>,
                                !.previous_release = rollout.current_release,
                                !.current_release = rollout.staged_release,
                                !.last_promoted_at = to_rfc3339(t),
                                !.updated_at = to_rfc3339(t)], None)
       ELSE Outcome(FALSE, FALSE, rollout,
                "no staged or current release available to promote")

\* rollout_promote after the gate and the entitlement check
rollout_promote_on(file, t) ==
    LET loaded == rollout_state_load(file, t)
        \* staged_release.take()
        rollout == [loaded EXCEPT !.staged_release = <<>>]
        verified == verify_release_signature(rollout, loaded.staged_release[1])
    IN IF loaded.staged_release # <<>>
       THEN IF ~verified.ok
            THEN Outcome(FALSE, TRUE,
                     [rollout EXCEPT !.last_verification_error = verified.error,
                                     !.updated_at = to_rfc3339(t)],
                     "staged release failed signature verification: "
                     \o verified.error)
            ELSE Outcome(TRUE, TRUE,
                     [rollout EXCEPT !.last_verified_signer = verified.signer,
                                     !.last_verification_error = None,
                                     !.previous_release = rollout.current_release,
                                     !.current_release = loaded.staged_release,
                                     !.last_promoted_at = to_rfc3339(t),
                                     !.updated_at = to_rfc3339(t)], None)
       ELSE IF loaded.current_release # <<>>
       THEN Outcome(TRUE, TRUE,
                [rollout EXCEPT !.current_release[1].ring = next_rollout_ring(@),
                                !.last_promoted_at = to_rfc3339(t),
                                !.updated_at = to_rfc3339(t)], None)
       ELSE Outcome(FALSE, FALSE, rollout,
                "no staged or current release available to promote")

\* bug: the release that was current is dropped, not staged
rollout_rollback_on_dropping(file, t) ==
    LET rollout == rollout_state_load(file, t)
    IN IF rollout.previous_release = <<>>
       THEN Outcome(FALSE, FALSE, rollout, "no previous release found for rollback")
       ELSE Outcome(TRUE, TRUE,
                [rollout EXCEPT !.staged_release = <<>>,
                                !.current_release = rollout.previous_release,
                                !.updated_at = to_rfc3339(t)], None)

\* bug: with no previous release the current one is staged all the same
rollout_rollback_on_unguarded(file, t) ==
    LET rollout == rollout_state_load(file, t)
    IN Outcome(rollout.previous_release # <<>>, TRUE,
               [rollout EXCEPT !.staged_release = rollout.current_release,
                               !.current_release = rollout.previous_release,
                               !.updated_at = to_rfc3339(t)],
               "no previous release found for rollback")

\* bug: rollback swaps the current and the previous release
rollout_rollback_on_swapping(file, t) ==
    LET rollout == rollout_state_load(file, t)
    IN IF rollout.previous_release = <<>>
       THEN Outcome(FALSE, FALSE, rollout, "no previous release found for rollback")
       ELSE Outcome(TRUE, TRUE,
                [rollout EXCEPT !.staged_release = rollout.current_release,
                                !.current_release = rollout.previous_release,
                                !.previous_release = rollout.current_release,
                                !.updated_at = to_rfc3339(t)], None)

\* rollout_rollback after the gate and the entitlement check
rollout_rollback_on(file, t) ==
    LET rollout == rollout_state_load(file, t)
    IN IF rollout.previous_release = <<>>
       THEN Outcome(FALSE, FALSE, rollout, "no previous release found for rollback")
       ELSE Outcome(TRUE, TRUE,
                [rollout EXCEPT !.staged_release = rollout.current_release,
                                !.current_release = rollout.previous_release,
                                !.updated_at = to_rfc3339(t)], None)

ProfileId == "default"

\* A policy-gated rollout command: the gate writes its receipt and its audit
\* event whatever it decides, the entitlement is read only past the gate, and
\* the command's own work is done only past both.  ret' keeps what the call
\* was given and the RolloutState it found.
GatedCommand(op, action, actor_id, actor_role, approval_id, entitlement, outcome) ==
    \E gate \in { evaluate_policy_gate_on(control_plane_file, audit_log, now,
                      uuid_counter, actor_id, actor_role, action,
                      "profile:" \o ProfileId, "workspace", approval_id) },
       entitled \in { ensure_entitlement_for_feature(entitlement, op) },
       before \in { rollout_state_load(rollout_file, now) },
       done \in { outcome } :
       /\ control_plane_file' = gate.control_plane_file
       /\ audit_log' = gate.audit_log
       /\ uuid_counter' = gate.uuid
       /\ origin' = IF gate.created
                    THEN origin @@ (gate.decision.approval_id :> gate.request)
                    ELSE origin
       /\ IF ~gate.ok
          THEN /\ ret' = Ret(op, FALSE, [entitlement |-> "unread", before |-> before],
                             gate.error)
               /\ UNCHANGED rollout_file
          ELSE IF ~entitled.ok
          THEN /\ ret' = Ret(op, FALSE, [entitlement |-> entitlement, before |-> before],
                             entitled.error)
               /\ UNCHANGED rollout_file
          ELSE /\ ret' = Ret(op, done.ok, [entitlement |-> entitlement, before |-> before],
                             IF done.ok THEN done.state ELSE done.error)
               /\ rollout_file' = IF done.saved
                                  THEN rollout_state_save(done.state)
                                  ELSE rollout_file
       /\ UNCHANGED <<now, tampered, calls, lifecycle, inner>>

rollout_stage_release(request, actor_id, actor_role, approval_id, entitlement) ==
    GatedCommand("rollout_stage_release", "release.stage", actor_id, actor_role,
                 approval_id, entitlement,
                 rollout_stage_release_on(rollout_file, request, now))

rollout_set_signing_policy(request, actor_id, actor_role, approval_id, entitlement) ==
    GatedCommand("rollout_set_signing_policy", "release.signing_policy", actor_id,
                 actor_role, approval_id, entitlement,
                 rollout_set_signing_policy_on(rollout_file, request, now))

rollout_promote(actor_id, actor_role, approval_id, entitlement) ==
    GatedCommand("rollout_promote", "release.promote", actor_id, actor_role,
                 approval_id, entitlement, rollout_promote_on(rollout_file, now))

rollout_rollback(actor_id, actor_role, approval_id, entitlement) ==
    GatedCommand("rollout_rollback", "release.rollback", actor_id, actor_role,
                 approval_id, entitlement, rollout_rollback_on(rollout_file, now))

(***************************************************************************)
(* Inputs of the rollout commands                                          *)
(***************************************************************************)
KeyBlob(key) == [base64 |-> TRUE, len |-> KeyLen, key |-> key, point |-> TRUE]

SignatureBlob(key, message) ==
    [base64 |-> TRUE, len |-> SignatureLen, key |-> key, message |-> message]

SignerA == <<"signer-a", KeyBlob("key-a")>>

\* trusted_signers entries as a request or a file may hold them: a usable one, a key of 16
\* bytes, a key that is not base64, and an empty entry
ShortKeySigner ==
    <<"signer-s", [base64 |-> TRUE, len |-> 16, key |-> "key-s", point |-> FALSE]>>

NotBase64Signer == <<"signer-n", [base64 |-> FALSE, len |-> 0, key |-> "", point |-> FALSE]>>

Checksum == [i \in 1..Sha256HexLen |-> "a"]
ShortChecksum == [i \in 1..(Sha256HexLen - 1) |-> "a"]

Unsigned(checksum) ==
    [ release_id |-> "rel-1", version |-> "1.0.0", checksum_sha256 |-> checksum,
      signature |-> <<>>, sbom_checksum_sha256 |-> <<>>, ring |-> "pilot" ]

\* the request signed with the given key, the signature carrying no key hint
SignedBy(key) ==
    [Unsigned(Checksum) EXCEPT
        !.signature = << <<SignatureBlob(key, release_signing_payload(Unsigned(Checksum)))>> >>]

\* a checksum of the right length with a character that is no hex digit
NotHexChecksum == [i \in 1..Sha256HexLen |-> "g"]

BadSbom == [Unsigned(Checksum) EXCEPT !.sbom_checksum_sha256 = <<NotHexChecksum>>]

\* the signature text is not base64
MalformedSignature ==
    [Unsigned(Checksum) EXCEPT
        !.signature = << <<[base64 |-> FALSE, len |-> 0, key |-> "", message |-> <<>>]>> >>]

StageRequests ==
    { Unsigned(Checksum), Unsigned(ShortChecksum), SignedBy("key-a"), SignedBy("key-x"),
      BadSbom, MalformedSignature }

SigningPolicyRequests ==
    { [signature_required |-> TRUE,
       trusted_signers |-> << <<"signer-a", KeyBlob("key-a")>> >>],
      [signature_required |-> FALSE, trusted_signers |-> <<>>],
      [signature_required |-> TRUE, trusted_signers |-> <<>>],
      [signature_required |-> TRUE, trusted_signers |-> <<SignerA, ShortKeySigner>>],
      [signature_required |-> FALSE, trusted_signers |-> <<NotBase64Signer>>] }

ActorRoles == {None}

StageRelease ==
    /\ Len(audit_log) < MaxLog
    /\ \E request \in StageRequests, actor_role \in ActorRoles, entitlement \in Entitlements :
        rollout_stage_release(request, None, actor_role, None, entitlement)

SetSigningPolicy ==
    /\ Len(audit_log) < MaxLog
    /\ \E request \in SigningPolicyRequests, actor_role \in ActorRoles,
          entitlement \in Entitlements :
        rollout_set_signing_policy(request, None, actor_role, None, entitlement)

Promote ==
    /\ Len(audit_log) < MaxLog
    /\ \E actor_role \in ActorRoles, entitlement \in Entitlements :
        rollout_promote(None, actor_role, None, entitlement)

Rollback ==
    /\ Len(audit_log) < MaxLog
    /\ \E actor_role \in ActorRoles, entitlement \in Entitlements :
        rollout_rollback(None, actor_role, None, entitlement)

\* The release rollout behind its policy gate.
NextRollout ==
    \/ SetSigningPolicy
    \/ StageRelease
    \/ Promote
    \/ Rollback
    \/ Tick

SpecRollout == Init /\ [][NextRollout]_vars

(***************************************************************************)
(* Properties of the release rollout                                       *)
(***************************************************************************)
RolloutBefore == rollout_state_load(rollout_file, now)
RolloutAfter == rollout_state_load(rollout_file', now')

\* this step is a call of rollout_promote
PromoteStep == ret'.op = "rollout_promote" /\ Len(audit_log') = Len(audit_log) + 1

\* the call was let through by the policy gate and by the entitlement check
PastGate ==
    /\ audit_log'[Len(audit_log')].result = "allowed"
    /\ ret'.request.entitlement = "entitled"

\* the key of trusted signer i made the release's signature over the release's
\* signing payload
SignerValidates(rollout, release, i) ==
    LET signer == parse_signer_entry(rollout.trusted_signers[i], i - 1)
        blob == release.signature[1][Len(release.signature[1])]
    IN /\ signer.ok
       /\ blob.key = signer.key
       /\ blob.message = release_signing_payload(release)

\* the release carries a well-formed signature that no trusted signer validates
MatchesNoTrustedSigner(rollout, release) ==
    /\ release.signature # <<>>
    /\ parse_signature_value(release.signature[1]).ok
    /\ \A i \in 1..Len(rollout.trusted_signers) : ~SignerValidates(rollout, release, i)

\* C1: rollout_promote with signature_required = true, a staged release and a
\* signature that matches no trusted signer leaves staged_release populated in
\* the persisted RolloutState, sets last_verification_error and returns an
\* error.
C1_StagedRetained ==
    [][ ( /\ PromoteStep
          /\ PastGate
          /\ RolloutBefore.signature_required
          /\ RolloutBefore.staged_release # <<>>
          /\ MatchesNoTrustedSigner(RolloutBefore, RolloutBefore.staged_release[1]) )
        => /\ rollout_file' # <<>>
           /\ rollout_file'[1].staged_release = RolloutBefore.staged_release
           /\ rollout_file'[1].last_verification_error # None
           /\ ~ret'.ok ]_vars

\* C2: in every rollout_promote call made while signature_required = true, the
\* staged release is promoted only if its signature validates under one of the
\* trusted signers, and when verify_release_signature refuses it,
\* current_release, previous_release and last_promoted_at stay as they were.
C2_FailClosed ==
    [][ ( /\ PromoteStep
          /\ RolloutBefore.signature_required
          /\ RolloutBefore.staged_release # <<>> )
        => LET staged == RolloutBefore.staged_release[1]
           IN /\ ( \/ ret'.ok
                   \/ RolloutAfter.current_release # RolloutBefore.current_release )
                 => /\ staged.signature # <<>>
                    /\ \E i \in 1..Len(RolloutBefore.trusted_signers) :
                          SignerValidates(RolloutBefore, staged, i)
              /\ ~verify_release_signature(RolloutBefore, staged).ok
                 => /\ ~ret'.ok
                    /\ RolloutAfter.current_release = RolloutBefore.current_release
                    /\ RolloutAfter.previous_release = RolloutBefore.previous_release
                    /\ RolloutAfter.last_promoted_at = RolloutBefore.last_promoted_at ]_vars

\* a promotion was refused for a release signed by a key that is not trusted
C2_Witness ==
    /\ ret.op = "rollout_promote"
    /\ ~ret.ok
    /\ ret.request.entitlement = "entitled"
    /\ rollout_file # <<>>
    /\ rollout_file[1].signature_required
    /\ rollout_file[1].last_verification_error =
           "release signature verification failed for staged release"
    /\ rollout_file[1].current_release = <<>>
    /\ rollout_file[1].last_promoted_at = None

(***************************************************************************)
(* Approval decisions by any role                                          *)
(***************************************************************************)
ResolveRoles == {"owner", "admin", "operator", ""}

GovernedRequests(file) ==
    { [ actor_id |-> BaseRequest.actor_id, actor_role |-> BaseRequest.actor_role,
        action |-> BaseRequest.action, resource |-> BaseRequest.resource,
        destination |-> BaseRequest.destination, approval_id |-> a,
        occurred_at |-> None, context |-> "{}" ] :
      a \in {None} \cup ApprovalIdsOf(file) }

ResolveIds == ApprovalIdsOf(control_plane_file) \cup {UnknownId}

EvaluateGoverned ==
    \E request \in GovernedRequests(control_plane_file) : evaluate_action(request)

ResolveByAnyRole ==
    \E id \in ResolveIds, role \in ResolveRoles, approved \in BOOLEAN, reason \in Reasons :
        resolve_approval(id, role, approved, reason)

\* Approvals of one governed request, decided by callers of any role.
NextResolve ==
    \/ EvaluateGoverned
    \/ ResolveByAnyRole
    \/ Tick

SpecResolve == Init /\ [][NextResolve]_vars

\* approval b is approval a with another status, decider or decision time
DecisionChanged(a, b) ==
    \/ b.status # a.status
    \/ b.decided_by # a.decided_by
    \/ b.decided_at # a.decided_at

\* C11: resolve_approval returns an error and leaves every approval and the
\* rest of the ControlPlaneState as it was when approver_role is neither
\* "owner" nor "admin", and also when the approval id is unknown; a call by
\* owner or admin on an existing id sets status, decided_by and decided_at, and
\* no other step changes them.
C11_ResolveGuarded ==
    [][ /\ \A id \in ResolveIds, role \in ResolveRoles, approved \in BOOLEAN,
              reason \in Reasons :
              resolve_approval(id, role, approved, reason) =>
                 IF role \notin {"owner", "admin"} \/ id \notin IdsOf(Loaded.approvals)
                 THEN /\ ~ret'.ok
                      /\ load(control_plane_file', now') = Loaded
                      /\ control_plane_file # <<>> => control_plane_file' = control_plane_file
                 ELSE /\ ret'.ok
                      /\ \E i \in 1..Len(control_plane_file'[1].approvals) :
                            LET b == control_plane_file'[1].approvals[i]
                            IN /\ b.id = id
                               /\ b.status = IF approved THEN "approved" ELSE "rejected"
                               /\ b.decided_by = role
                               /\ b.decided_at = to_rfc3339(now)
                               /\ ret'.value = b
        /\ \A i \in 1..Len(Loaded.approvals) :
              \A j \in 1..Len(load(control_plane_file', now').approvals) :
                 LET a == Loaded.approvals[i]
                     b == load(control_plane_file', now').approvals[j]
                 IN (a.id = b.id /\ DecisionChanged(a, b)) =>
                       \E role \in {"owner", "admin"}, approved \in BOOLEAN,
                          reason \in Reasons :
                          resolve_approval(a.id, role, approved, reason) ]_vars

\* an operator's call on a pending approval was refused, the approval still
\* pending
C11_Witness ==
    /\ ret.op = "resolve_approval"
    /\ ~ret.ok
    /\ ret.value = "only owner/admin can resolve approvals"
    /\ control_plane_file # <<>>
    /\ ret.request \in IdsOf(control_plane_file[1].approvals)
    /\ \A i \in 1..Len(control_plane_file[1].approvals) :
          /\ control_plane_file[1].approvals[i].status = "pending"
          /\ control_plane_file[1].approvals[i].decided_by = None

(***************************************************************************)
(* The receipt ledger under evaluations, retention changes and purges      *)
(***************************************************************************)
PlainRequests ==
    { [ actor_id |-> BaseRequest.actor_id, actor_role |-> role,
        action |-> BaseRequest.action, resource |-> BaseRequest.resource,
        destination |-> BaseRequest.destination, approval_id |-> None,
        occurred_at |-> None, context |-> "{}" ] : role \in {"operator", "owner"} }

EvaluatePlain == \E request \in PlainRequests : evaluate_action(request)

NextLedger ==
    \/ EvaluatePlain
    \/ SetRetention
    \/ purge_by_retention
    \/ Tick

SpecLedger == Init /\ [][NextLedger]_vars

\* the number n of the draw that made uuid id
DrawOf(id) == CHOOSE n \in DOMAIN Uuids : Uuids[n] = id

Release(release_id) == [Unsigned(Checksum) EXCEPT !.release_id = release_id]

\* the release signed with the given key; key_hint is None or the hint put
\* before the ':' of the signature value
SignedRelease(release_id, key_hint, key) ==
    LET blob == SignatureBlob(key, release_signing_payload(Release(release_id)))
    IN [Release(release_id) EXCEPT
           !.signature = << IF key_hint = None THEN <<blob>> ELSE <<key_hint, blob>> >>]

StageSigned ==
    /\ Len(audit_log) < MaxCommands
    /\ \E release_id \in {"rel-1", "rel-2"} :
          rollout_stage_release(SignedRelease(release_id, None, "key-a"),
                                None, None, None, "entitled")

RequireSignature ==
    /\ Len(audit_log) < MaxCommands
    /\ rollout_set_signing_policy(
           [signature_required |-> TRUE, trusted_signers |-> <<SignerA>>],
           None, None, None, "entitled")

PromoteNext ==
    /\ Len(audit_log) < MaxCommands
    /\ rollout_promote(None, None, None, "entitled")

RollbackLast ==
    /\ Len(audit_log) < MaxCommands
    /\ rollout_rollback(None, None, None, "entitled")

\* Releases signed by a trusted key, staged, promoted and rolled back by an
\* entitled owner, with or without a signing policy.
NextRelease ==
    \/ StageSigned
    \/ RequireSignature
    \/ PromoteNext
    \/ RollbackLast
    \/ Tick

SpecRelease == Init /\ [][NextRelease]_vars

\* this step is a call of rollout_rollback
RollbackStep == ret'.op = "rollout_rollback" /\ Len(audit_log') = Len(audit_log) + 1

\* the last command was a successful promotion of a staged release
AfterStagedPromotion ==
    /\ ret.op = "rollout_promote"
    /\ ret.ok
    /\ ret.request.before.staged_release # <<>>

\* rollback made the release that was current before the promotion current
\* again and staged the promoted one
RolledBackTo(before) ==
    /\ ret'.ok
    /\ rollout_file'[1].current_release = before.current_release
    /\ rollout_file'[1].staged_release = before.staged_release
    /\ rollout_file'[1].staged_release = rollout_file[1].current_release

\* C13 as stated: after a successful promotion of a staged release, rollback
\* restores the release that was current before that promotion as
\* current_release and places the just-demoted release into staged_release.
C13_RollbackRestores ==
    [][ (RollbackStep /\ PastGate /\ AfterStagedPromotion)
        => RolledBackTo(ret.request.before) ]_vars

\* C13 amended: the same when a release was current before that promotion;
\* when none was, rollback returns an error and leaves the RolloutState as it
\* is.
C13_RollbackRestoresPrior ==
    [][ (RollbackStep /\ PastGate /\ AfterStagedPromotion)
        => IF ret.request.before.current_release # <<>>
           THEN RolledBackTo(ret.request.before)
           ELSE ~ret'.ok /\ rollout_file' = rollout_file ]_vars

\* rel-2 was promoted over rel-1 (or rel-1 over rel-2) and rolled back
C13_Witness ==
    /\ ret.op = "rollout_rollback"
    /\ ret.ok
    /\ ret.request.before.previous_release # <<>>
    /\ rollout_file[1].current_release = ret.request.before.previous_release
    /\ rollout_file[1].staged_release = ret.request.before.current_release
    /\ rollout_file[1].current_release[1].release_id
          # rollout_file[1].staged_release[1].release_id

\* C14: rollback fails whenever previous_release is absent, and the persisted
\* RolloutState is then left as it was.
C14_RollbackNeedsPrevious ==
    [][ (RollbackStep /\ RolloutBefore.previous_release = <<>>)
        => /\ ~ret'.ok
           /\ rollout_file' = rollout_file
           /\ PastGate => ret'.value = "no previous release found for rollback" ]_vars

\* rollback was refused with a current release and no previous one
C14_Witness ==
    /\ ret.op = "rollout_rollback"
    /\ ~ret.ok
    /\ ret.value = "no previous release found for rollback"
    /\ rollout_file # <<>>
    /\ rollout_file[1].current_release # <<>>
    /\ rollout_file[1].previous_release = <<>>
    /\ rollout_file = <<ret.request.before>>

\* the promotion of this step moved the staged release S to current_release
\* and the current release C to previous_release
PromotedStaged ==
    /\ RolloutAfter.current_release = RolloutBefore.staged_release
    /\ RolloutAfter.previous_release = RolloutBefore.current_release
    /\ RolloutAfter.staged_release = <<>>
    /\ RolloutAfter.last_verification_error = None

\* last_verified_signer is the id of a trusted signer whose key validates S
RecordedSignerValidates ==
    \E i \in 1..Len(RolloutBefore.trusted_signers) :
       /\ SignerValidates(RolloutBefore, RolloutBefore.staged_release[1], i)
       /\ RolloutAfter.last_verified_signer
             = parse_signer_entry(RolloutBefore.trusted_signers[i], i - 1).key_id

\* C15 as stated: when promote succeeds on a staged release S with prior
\* current release C (possibly absent), the resulting state has
\* current_release = S, previous_release = C, staged_release empty,
\* last_verification_error cleared and last_verified_signer set to the id of
\* the signer that validated S.
C15_PromoteResult ==
    [][ (PromoteStep /\ ret'.ok /\ RolloutBefore.staged_release # <<>>)
        => PromotedStaged /\ RecordedSignerValidates ]_vars

\* C15 amended: the same while signature_required = true; while it is false
\* no signer validates anything and last_verified_signer is set to the text
\* "signature_not_required".
C15_PromoteResultBySigningPolicy ==
    [][ (PromoteStep /\ ret'.ok /\ RolloutBefore.staged_release # <<>>)
        => /\ PromotedStaged
           /\ IF RolloutBefore.signature_required
              THEN RecordedSignerValidates
              ELSE RolloutAfter.last_verified_signer = "signature_not_required" ]_vars

\* under a signing policy a release was promoted over another one
C15_Witness ==
    /\ ret.op = "rollout_promote"
    /\ ret.ok
    /\ ret.request.before.signature_required
    /\ ret.request.before.staged_release # <<>>
    /\ ret.request.before.current_release # <<>>
    /\ rollout_file[1].current_release = ret.request.before.staged_release
    /\ rollout_file[1].previous_release = ret.request.before.current_release
    /\ rollout_file[1].current_release # rollout_file[1].previous_release
    /\ rollout_file[1].last_verified_signer = "signer-a"

RingOrder == <<"pilot", "group", "all">>

RingStep(ring) ==
    LET k == CHOOSE i \in 1..Len(RingOrder) : RingOrder[i] = ring
    IN RingOrder[IF k < Len(RingOrder) THEN k + 1 ELSE k]

\* C16: promote with no staged release and a current release advances the
\* current release's ring by exactly one step along pilot -> group -> all and
\* leaves it at all once there, touching nothing else of the RolloutState but
\* last_promoted_at and updated_at; with neither a staged nor a current
\* release promote returns an error and changes nothing.
C16_RingAdvance ==
    [][ (PromoteStep /\ PastGate /\ RolloutBefore.staged_release = <<>>)
        => IF RolloutBefore.current_release # <<>>
           THEN /\ ret'.ok
                /\ rollout_file' =
                     << [RolloutBefore EXCEPT
                            !.current_release[1].ring = RingStep(@),
                            !.last_promoted_at = to_rfc3339(now),
                            !.updated_at = to_rfc3339(now)] >>
           ELSE /\ ~ret'.ok
                /\ rollout_file' = rollout_file ]_vars

\* a release in ring all was promoted once more and stayed there
C16_Witness ==
    /\ ret.op = "rollout_promote"
    /\ ret.ok
    /\ ret.request.before.staged_release = <<>>
    /\ ret.request.before.current_release # <<>>
    /\ ret.request.before.current_release[1].ring = "all"
    /\ rollout_file[1].current_release[1].ring = "all"

(***************************************************************************)
(* Signing policies of several signers and signatures with key hints       *)
(***************************************************************************)
SignerB == <<"signer-b", KeyBlob("key-b")>>

\* 32 bytes that are no point of the curve: parse_signer_entry accepts them,
\* VerifyingKey::from_bytes does not
SignerC == <<"signer-c", [base64 |-> TRUE, len |-> KeyLen, key |-> "key-c", point |-> FALSE]>>

SignerLists ==
    UNION { [1..n -> {SignerA, SignerB, SignerC}] : n \in 1..MaxSigners }

KeyHints == {None, "signer-a", "signer-b"}

SetSigners ==
    /\ Len(audit_log) < MaxLog
    /\ \E signers \in SignerLists :
          rollout_set_signing_policy(
              [signature_required |-> TRUE, trusted_signers |-> signers],
              None, None, None, "entitled")

StageHinted ==
    /\ Len(audit_log) < MaxLog
    /\ \E key_hint \in KeyHints, key \in {"key-a", "key-b", "key-x"} :
          rollout_stage_release(SignedRelease("rel-1", key_hint, key),
                                None, None, None, "entitled")

PromoteStaged ==
    /\ Len(audit_log) < MaxLog
    /\ rollout_promote(None, None, None, "entitled")

NextSigners ==
    \/ SetSigners
    \/ StageHinted
    \/ PromoteStaged
    \/ Tick

SpecSigners == Init /\ [][NextSigners]_vars

\* the trusted signers verification tries for a signature with this key hint:
\* the ones whose id is the hint, or all of them when there is no hint
TriedSigners(rollout, key_hint) ==
    { i \in 1..Len(rollout.trusted_signers) :
        \/ key_hint = None
        \/ parse_signer_entry(rollout.trusted_signers[i], i - 1).key_id = key_hint }

\* C17: with a key hint only the trusted signers whose id equals the hint are
\* tried, without one all trusted signers are tried in list order; the first
\* tried signer whose key validates the signature wins, and verification fails
\* exactly when no tried signer validates it.
C17_SignerSelection ==
    ( /\ rollout_file # <<>>
      /\ rollout_file[1].signature_required
      /\ rollout_file[1].staged_release # <<>> )
    => LET rollout == rollout_state_load(rollout_file, now)
           release == rollout.staged_release[1]
           key_hint == parse_signature_value(release.signature[1]).key_hint
           validating == { i \in TriedSigners(rollout, key_hint) :
                             SignerValidates(rollout, release, i) }
           first == CHOOSE i \in validating : \A j \in validating : i <= j
           verified == verify_release_signature(rollout, release)
       IN IF validating = {}
          THEN ~verified.ok
          ELSE /\ verified.ok
               /\ verified.signer
                     = parse_signer_entry(rollout.trusted_signers[first], first - 1).key_id

(***************************************************************************)
(* Development mode: signature_required = false                            *)
(***************************************************************************)
\* C18: with signature_required = false verification succeeds trivially:
\* rollout_promote of a staged release that rollout_stage_release accepted
\* succeeds and makes it the current release, whether its signature is absent
\* or was made by a key that is not trusted (a malformed signature is never
\* accepted by rollout_stage_release).
C18_PromoteWithoutSignaturePolicy ==
    [][ ( /\ PromoteStep
          /\ PastGate
          /\ ~RolloutBefore.signature_required
          /\ RolloutBefore.staged_release # <<>> )
        => /\ ret'.ok
           /\ RolloutAfter.current_release = RolloutBefore.staged_release
           /\ RolloutAfter.staged_release = <<>>
           /\ RolloutAfter.last_verification_error = None ]_vars

\* a release signed by a key that is not trusted was promoted while
\* signature_required was false
C18_Witness ==
    /\ ret.op = "rollout_promote"
    /\ ret.ok
    /\ ~ret.request.before.signature_required
    /\ ret.request.before.staged_release # <<>>
    /\ MatchesNoTrustedSigner(ret.request.before, ret.request.before.staged_release[1])
    /\ rollout_file[1].current_release = ret.request.before.staged_release

(***************************************************************************)
(* Loading a stored RolloutState                                           *)
(***************************************************************************)
\* rollout_state_get: the loaded state is returned, nothing is written
rollout_state_get ==
    /\ ret' = Ret("rollout_state_get", TRUE, [stored |-> rollout_file],
                  rollout_state_load(rollout_file, now))
    /\ UNCHANGED <<control_plane_file, audit_log, rollout_file, now, uuid_counter,
                   origin, tampered, calls, lifecycle, inner>>

StoredSigners == {SignerA, ShortKeySigner, NotBase64Signer, <<>>}

StoredSignerLists == UNION { [1..n -> StoredSigners] : n \in 0..MaxSigners }

\* rollout state files left by any version of the program
StoredRolloutFiles ==
    {<<>>} \cup
    { <<[RolloutState_default(0) EXCEPT !.signature_required = required,
                                        !.trusted_signers = signers]>> :
        required \in BOOLEAN, signers \in StoredSignerLists }

InitStored ==
    /\ control_plane_file = <<>>
    /\ audit_log = <<>>
    /\ rollout_file \in StoredRolloutFiles
    /\ now = 0
    /\ uuid_counter = 0
    /\ ret = Ret("init", TRUE, None, None)
    /\ origin = <<>>
    /\ tampered = 0
    /\ calls = NoCalls
    /\ lifecycle = LifecycleController_default
    /\ inner = RuntimeInner_new

NextStored ==
    \/ rollout_state_get
    \/ Tick

SpecStored == InitStored /\ [][NextStored]_vars

\* C19: loading a stored state with signature_required = true whose
\* trusted_signers is empty or holds any entry that does not parse to a 32-byte
\* key gives a state with signature_required = false whose
\* last_verification_error records the reason; otherwise signature_required
\* stays as stored.
C19_LoadHeals ==
    (ret.op = "rollout_state_get" /\ ret.request.stored # <<>>)
    => LET stored == ret.request.stored[1]
           loaded == ret.value
           unparsable == { i \in 1..Len(stored.trusted_signers) :
                             ~parse_signer_entry(stored.trusted_signers[i], i - 1).ok }
       IN IF stored.signature_required
             /\ (Len(stored.trusted_signers) = 0 \/ unparsable # {})
          THEN /\ ~loaded.signature_required
               /\ loaded.last_verification_error # None
          ELSE loaded.signature_required = stored.signature_required

(***************************************************************************)
(* Staging a release                                                       *)
(***************************************************************************)
WellFormedChecksums(request) ==
    /\ validate_sha256_hex(request.checksum_sha256, "checksum_sha256").ok
    /\ \/ request.sbom_checksum_sha256 = <<>>
       \/ validate_sha256_hex(request.sbom_checksum_sha256[1], "sbom_checksum_sha256").ok

\* C20: rollout_stage_release stores the descriptor as staged_release without
\* verifying its signature against the trusted signers: a release with an
\* absent signature, or a well-formed one that no trusted signer validates, is
\* staged even when signature_required = true; a descriptor whose checksum or
\* SBOM checksum is not a 64-character hex string is rejected and the stored
\* RolloutState stays as it was.
C20_StageWithoutVerification ==
    [][ \A request \in StageRequests, actor_role \in ActorRoles,
           entitlement \in Entitlements :
          ( /\ rollout_stage_release(request, None, actor_role, None, entitlement)
            /\ PastGate )
          => IF ~WellFormedChecksums(request)
             THEN /\ ~ret'.ok
                  /\ rollout_file' = rollout_file
             ELSE ( \/ request.signature = <<>>
                    \/ parse_signature_value(request.signature[1]).ok )
                  => /\ ret'.ok
                     /\ RolloutAfter.staged_release # <<>>
                     /\ \A field \in DOMAIN request :
                           RolloutAfter.staged_release[1][field] = request[field]
                     /\ RolloutAfter.signature_required = RolloutBefore.signature_required
                     /\ RolloutAfter.trusted_signers = RolloutBefore.trusted_signers
                     /\ RolloutAfter.current_release = RolloutBefore.current_release ]_vars

\* with signature_required = true a release was staged whose signature no
\* trusted signer validates
C20_Witness ==
    /\ ret.op = "rollout_stage_release"
    /\ ret.ok
    /\ ret.request.before.signature_required
    /\ rollout_file[1].signature_required
    /\ rollout_file[1].staged_release # <<>>
    /\ MatchesNoTrustedSigner(rollout_file[1], rollout_file[1].staged_release[1])

(***************************************************************************)
(* The signing policy that is stored                                       *)
(***************************************************************************)
\* every entry parses to a key id and a key of 32 bytes
AllSignersParse(signers) ==
    \A i \in 1..Len(signers) : parse_signer_entry(signers[i], i - 1).ok

\* the stored policy, when it requires signatures, names at least one signer
\* and only signers that parse
SigningPolicyUsable ==
    (rollout_file # <<>> /\ rollout_file[1].signature_required)
    => /\ Len(rollout_file[1].trusted_signers) > 0
       /\ AllSignersParse(rollout_file[1].trusted_signers)

\* C21: rollout_set_signing_policy rejects, leaving the stored RolloutState as
\* it was, a request with signature_required = true and no signers and a request
\* with any signer entry that does not parse; and whatever set_signing_policy,
\* stage_release, promote and rollback calls were made, a stored
\* signature_required = true comes with a non-empty trusted_signers whose
\* entries all parse to 32-byte keys.
C21_SigningPolicyValidated ==
    /\ []SigningPolicyUsable
    /\ [][ \A request \in SigningPolicyRequests, actor_role \in ActorRoles,
               entitlement \in Entitlements :
              ( /\ rollout_set_signing_policy(request, None, actor_role, None, entitlement)
                /\ \/ request.signature_required /\ Len(request.trusted_signers) = 0
                   \/ ~AllSignersParse(request.trusted_signers) )
              => /\ ~ret'.ok
                 /\ rollout_file' = rollout_file ]_vars

\* while signatures were required, a request with a signer whose key is not
\* 32 bytes long was rejected
C21_Witness ==
    /\ ret.op = "rollout_set_signing_policy"
    /\ ~ret.ok
    /\ ret.value = "invalid trusted signer configuration: trusted_signers[1] key must decode to 32 bytes"
    /\ rollout_file # <<>>
    /\ rollout_file[1].signature_required
    /\ rollout_file[1].trusted_signers = <<SignerA>>

(***************************************************************************)
(* Evaluations under an access state that does not permit the active view  *)
(***************************************************************************)
\* C22: when the active view is not accessible under the current AccessState
\* (an expired trial), evaluate_action denies every request with reason
\* "access plan does not permit the current workspace view", whatever the
\* role, the rules or an Approved approval_id it carries; it creates no
\* approval and pushes exactly one Denied receipt.
C22_InaccessibleViewDenied ==
    [][ (EvaluateStep /\ ~ViewAccessible) =>
          LET before == Loaded
              after == control_plane_file'[1]
              d == ret'.value
          IN /\ ~d.allowed
             /\ ~d.requires_approval
             /\ d.reason = "access plan does not permit the current workspace view"
             /\ d.approval_id = None
             /\ after.approvals = before.approvals
             /\ Len(after.receipts)
                   = IF Len(before.receipts) < ReceiptCap THEN Len(before.receipts) + 1
                     ELSE ReceiptCap
             /\ after.receipts[1].id = d.receipt_id
             /\ after.receipts[1].result = "denied"
             /\ after.receipts[1].reason = d.reason
             /\ d.receipt_id \notin IdsOf(before.receipts)
             /\ SubSeq(after.receipts, 2, Len(after.receipts))
                   = SubSeq(before.receipts, 1, Len(after.receipts) - 1) ]_vars

\* after the trial expired, the replay of an approval that an admin approved
\* was denied for the access plan
C22_Witness ==
    /\ ret.op = "evaluate_action"
    /\ ret.value.reason = "access plan does not permit the current workspace view"
    /\ ~ret.value.allowed
    /\ control_plane_file[1].access_state.plan = "trial"
    /\ \E i \in 1..Len(control_plane_file[1].approvals) :
          /\ ApprovedByAdmin(control_plane_file[1].approvals[i])
          /\ ReplayOf(control_plane_file[1].approvals[i], ret.request)

(***************************************************************************)
(* AccessState: plans, views and the trial                                 *)
(***************************************************************************)
\* what trial_expires_at may hold: nothing, an instant, or text that is no
\* RFC 3339 timestamp
TrialExpiries == {None, "not-a-date"} \cup {Rfc3339[t] : t \in Clock}

AccessStates ==
    { [ plan |-> plan, active_view |-> view,
        trial_started_at |-> IF expires = None THEN None ELSE to_rfc3339(0),
        trial_expires_at |-> expires, updated_at |-> to_rfc3339(0) ] :
      plan \in Plans, view \in Views, expires \in TrialExpiries }

InitAccess ==
    /\ control_plane_file \in
          { <<[ControlPlaneState_default(0) EXCEPT !.access_state = access]>> :
            access \in AccessStates }
    /\ audit_log = <<>>
    /\ rollout_file = <<>>
    /\ now = 0
    /\ uuid_counter = 0
    /\ ret = Ret("init", TRUE, None, None)
    /\ origin = <<>>
    /\ tampered = 0
    /\ calls = NoCalls
    /\ lifecycle = LifecycleController_default
    /\ inner = RuntimeInner_new

\* AccessState::can_access_view asked of the stored access state
CanAccessView ==
    \E view \in Views :
       /\ ret' = Ret("can_access_view", TRUE,
                     [access |-> control_plane_file[1].access_state, view |-> view,
                      now |-> now],
                     can_access_view(control_plane_file[1].access_state, view, now))
       /\ UNCHANGED <<control_plane_file, audit_log, rollout_file, now, uuid_counter,
                      origin, tampered, calls, lifecycle, inner>>

NextAccess ==
    \/ CanAccessView
    \/ SetPaidPlan
    \/ SetActiveView
    \/ start_trial
    \/ Tick

SpecAccess == InitAccess /\ [][NextAccess]_vars

\* C23: under plan Trial the Personal and the Org view are both accessible
\* exactly while now < trial_expires_at, and neither is once the trial has
\* expired or has no expiry; under plan Personal only the Personal view is
\* accessible, under plan Org only the Org view.
C23_ViewAccess ==
    ret.op = "can_access_view"
    => LET access == ret.request.access
           expires == access.trial_expires_at
           running == /\ expires # None
                      /\ \E t \in Clock : Rfc3339[t] = expires /\ ret.request.now < t
       IN ret.value
            <=> \/ access.plan = "trial" /\ running
                \/ access.plan = "personal" /\ ret.request.view = "personal"
                \/ access.plan = "org" /\ ret.request.view = "org"

\* a running trial was asked for the Org view and grants it
C23_Witness ==
    /\ ret.op = "can_access_view"
    /\ ret.request.access.plan = "trial"
    /\ ret.request.access.trial_expires_at = to_rfc3339(ret.request.now + 1)
    /\ ret.request.view = "org"
    /\ ret.value

(***************************************************************************)
(* Replays: requests under a require_approval rule that carry an id        *)
(***************************************************************************)
\* what a replay owes: "approval not found" for an id no approval has, and the
\* verdict stored in the approval when it is found and matches the request
ReplayAnswered ==
    LET request == ret'.request
        d == ret'.value
        a == find_approval(Loaded.approvals, request.approval_id)
    IN IF a = 0
       THEN ~d.allowed /\ d.reason = "approval not found"
       ELSE SameAction(Loaded.approvals[a], request)
            => CASE Loaded.approvals[a].status = "approved" -> d.allowed
                 [] Loaded.approvals[a].status = "rejected" ->
                        ~d.allowed /\ ~d.requires_approval
                 [] Loaded.approvals[a].status = "pending" ->
                        /\ ~d.allowed
                        /\ d.requires_approval
                        /\ d.reason = "approval is still pending"

\* C24 as stated: a request under a require_approval rule that carries an
\* approval_id is denied with "approval not found" when no approval has that
\* id; when a matching approval is found the decision mirrors its status:
\* Approved gives allowed, Rejected gives not allowed and no approval required,
\* Pending gives not allowed with requires_approval ("approval is still
\* pending").
C24_ReplayMirrorsStatus ==
    [][ (EvaluateStep /\ GovernedRequest(ret'.request) /\ ret'.request.approval_id # None)
          => ReplayAnswered ]_vars

\* C24 amended: the same, for requests evaluated while the active view is
\* accessible under the access state.
C24_ReplayMirrorsStatusWhenAccessible ==
    [][ (EvaluateStep /\ ViewAccessible /\ GovernedRequest(ret'.request)
            /\ ret'.request.approval_id # None)
          => ReplayAnswered ]_vars

\* a rejected approval has been replayed with the request that created it
C24_Witness ==
    /\ ret.op = "evaluate_action"
    /\ ret.value.reason = "approval rejected"
    /\ ~ret.value.allowed
    /\ ~ret.value.requires_approval
    /\ \E i \in 1..Len(control_plane_file[1].approvals) :
          /\ control_plane_file[1].approvals[i].status = "rejected"
          /\ ReplayOf(control_plane_file[1].approvals[i], ret.request)

(***************************************************************************)
(* Where approvals come from                                               *)
(***************************************************************************)
\* C25: an ApprovalRequest is created only by an evaluate_action call whose
\* matched rule has require_approval = true and whose request carries no
\* approval_id; every other branch of evaluate_action, every replay that
\* carries an approval_id included (found, missing or mismatched), leaves the
\* approvals unchanged in length and content.
C25_ApprovalsCreatedOnlyWithoutId ==
    [][ LET before == Loaded.approvals
            after == load(control_plane_file', now').approvals
            creating == /\ EvaluateStep
                        /\ ViewAccessible
                        /\ GovernedRequest(ret'.request)
                        /\ ret'.request.approval_id = None
        IN /\ (IdsOf(after) \ IdsOf(before) # {}) => creating
           /\ (EvaluateStep /\ ~creating) => after = before
           /\ creating => /\ Len(after) = Len(before) + 1
                          /\ SubSeq(after, 1, Len(before)) = before ]_vars

\* a pending approval was replayed with its id and is still the only approval
C25_Witness ==
    /\ ret.op = "evaluate_action"
    /\ ret.request.approval_id # None
    /\ ret.value.reason = "approval is still pending"
    /\ Len(control_plane_file[1].approvals) = 1
    /\ control_plane_file[1].approvals[1].id = ret.request.approval_id
    /\ control_plane_file[1].approvals[1].status = "pending"

(***************************************************************************)
(* Purging a stored ledger by retention                                    *)
(***************************************************************************)
\* timestamps found in a stored file: MaxAge days old, of the day the run
\* starts, and text that is no RFC 3339 timestamp
StoredStamps == {to_rfc3339(0 - MaxAge), to_rfc3339(0), "not-a-date"}

StoredStampLists == UNION { [1..n -> StoredStamps] : n \in 0..ReceiptCap }

StoredReceipt(i, stamp) ==
    [ id |-> "receipt-" \o ToString(i), timestamp |-> stamp,
      actor_id |-> BaseRequest.actor_id, actor_role |-> BaseRequest.actor_role,
      action |-> BaseRequest.action, resource |-> BaseRequest.resource,
      destination |-> BaseRequest.destination, result |-> "denied",
      reason |-> "no matching policy rule", context |-> "{}" ]

StoredApproval(i, stamp) ==
    [ id |-> "approval-" \o ToString(i), created_at |-> stamp,
      actor_id |-> BaseRequest.actor_id, actor_role |-> BaseRequest.actor_role,
      action |-> BaseRequest.action, resource |-> BaseRequest.resource,
      destination |-> BaseRequest.destination, status |-> "pending",
      decided_by |-> None, decided_at |-> None, reason |-> None, context |-> "{}" ]

\* control-plane files left by earlier runs
StoredControlPlaneFiles ==
    { <<[ControlPlaneState_default(0) EXCEPT
            !.access_state = AccessState_start_trial(@, 0),
            !.receipts = [i \in 1..Len(receipts) |-> StoredReceipt(i, receipts[i])],
            !.approvals = [i \in 1..Len(approvals) |-> StoredApproval(i, approvals[i])]]>> :
      receipts \in StoredStampLists, approvals \in StoredStampLists }

InitPurge ==
    /\ control_plane_file \in StoredControlPlaneFiles
    /\ audit_log = <<>>
    /\ rollout_file = <<>>
    /\ now = 0
    /\ uuid_counter = 0
    /\ ret = Ret("init", TRUE, None, None)
    /\ origin = <<>>
    /\ tampered = 0
    /\ calls = NoCalls
    /\ lifecycle = LifecycleController_default
    /\ inner = RuntimeInner_new

NextPurge ==
    \/ SetRetention
    \/ purge_by_retention
    \/ Tick

SpecPurge == InitPurge /\ [][NextPurge]_vars

\* this step is a call of purge_by_retention
PurgeStep == ret'.op = "purge_by_retention" /\ now' = now

\* the timestamp names an instant before the cutoff
Predates(stamp, cutoff) == \E t \in Clock : Rfc3339[t] = stamp /\ t < cutoff

\* C26: purge_by_retention removes exactly the receipts whose timestamp is
\* earlier than now - receipts_days and exactly the approvals whose created_at
\* is earlier than now - approvals_days; entries whose timestamp does not parse
\* are kept; the PurgeSummary counts are the numbers removed and the survivors
\* keep their relative order.
C26_PurgeByRetention ==
    [][ PurgeStep =>
          LET before == Loaded
              after == control_plane_file'[1]
              receipts_cutoff == now - before.retention.receipts_days
              approvals_cutoff == now - before.retention.approvals_days
              KeptReceipt(receipt) == ~Predates(receipt.timestamp, receipts_cutoff)
              KeptApproval(approval) == ~Predates(approval.created_at, approvals_cutoff)
          IN /\ after.receipts = SelectSeq(before.receipts, KeptReceipt)
             /\ after.approvals = SelectSeq(before.approvals, KeptApproval)
             /\ ret'.value.removed_receipts
                   = Cardinality({i \in 1..Len(before.receipts) :
                                    ~KeptReceipt(before.receipts[i])})
             /\ ret'.value.removed_approvals
                   = Cardinality({i \in 1..Len(before.approvals) :
                                    ~KeptApproval(before.approvals[i])}) ]_vars

\* a purge removed one receipt and no approval, and a receipt whose timestamp
\* does not parse is still stored behind a dated one
C26_Witness ==
    /\ ret.op = "purge_by_retention"
    /\ ret.value.removed_receipts = 1
    /\ ret.value.removed_approvals = 0
    /\ Len(control_plane_file[1].approvals) > 0
    /\ Len(control_plane_file[1].receipts) > 0
    /\ control_plane_file[1].receipts[Len(control_plane_file[1].receipts)].timestamp
          = "not-a-date"

(***************************************************************************)
(* The audit chain among the operations of the system                      *)
(***************************************************************************)
\* an event appended directly, outside a gated command
AppendDirect ==
    \E event \in {e \in AuditEvents : e.id = "audit-1"} : append_audit_event(event)

StageTrusted ==
    /\ Len(audit_log) < MaxLog
    /\ rollout_stage_release(SignedBy("key-a"), None, None, None, "entitled")

TrustSignerA ==
    /\ Len(audit_log) < MaxLog
    /\ rollout_set_signing_policy(
          [signature_required |-> TRUE, trusted_signers |-> <<SignerA>>],
          None, None, None, "entitled")

RollbackEntitled ==
    /\ Len(audit_log) < MaxLog
    /\ rollout_rollback(None, None, None, "entitled")

ResolveUnknown == resolve_approval(UnknownId, "admin", TRUE, "reviewed")

\* the shortest retention there is: one day for receipts and approvals
RetainShortest == set_retention(0, 0)

\* Direct appends, the gated rollout commands (each appends the event of its
\* gate), approvals being resolved, retention being set and applied.
NextSystem ==
    \/ AppendDirect
    \/ purge_by_retention
    \/ RetainShortest
    \/ ResolveUnknown
    \/ TrustSignerA
    \/ StageTrusted
    \/ PromoteStaged
    \/ RollbackEntitled
    \/ Tick

SpecSystem == Init /\ [][NextSystem]_vars

\* C27: the audit chain is append-only: no operation (append_audit_event,
\* purge_by_retention, set_retention, resolve_approval, the rollout commands)
\* removes, reorders or rewrites an event already written; append_audit_event
\* adds one event at the end and leaves the earlier ones as they were.
C27_AuditAppendOnly ==
    [][ /\ Len(audit_log') \in {Len(audit_log), Len(audit_log) + 1}
        /\ SubSeq(audit_log', 1, Len(audit_log)) = audit_log
        /\ \A event \in AuditEvents :
              (ret'.op = "append_audit_event" /\ append_audit_event(event))
              => /\ Len(audit_log') = Len(audit_log) + 1
                 /\ audit_log'[Len(audit_log')].id = event.id
        /\ ( \/ ret'.op = "purge_by_retention" /\ purge_by_retention
             \/ ret'.op = "set_retention" /\ RetainShortest
             \/ ret'.op = "resolve_approval" /\ ResolveUnknown )
              => audit_log' = audit_log ]_vars

\* a purge ran on a workspace whose audit log holds events of a direct append
\* and of a rollout command
C27_Witness ==
    /\ ret.op = "purge_by_retention"
    /\ Len(audit_log) = MaxLog
    /\ \E i \in 1..Len(audit_log) : audit_log[i].receipt_id = "uuid-r"
    /\ \E i \in 1..Len(audit_log) : audit_log[i].action = "release.stage"
    /\ rollout_file # <<>>

(***************************************************************************)
(* Callers that run at the same time                                       *)
(*                                                                         *)
(* Nothing serialises the calls on one workspace: a call is a read of the  *)
(* file, a computation on what was read, and a write.  Between the read of *)
(* one caller and its write, another caller may read and write.            *)
(***************************************************************************)
\* evaluate_action up to the end of self.load(): a missing file is created
evaluate_action_load(caller, request) ==
    /\ calls[caller].pc = "idle"
    /\ calls' = [calls EXCEPT ![caller] =
                    [ pc |-> "loaded", given |-> <<request>>,
                      read |-> <<load(control_plane_file, now)>>, result |-> <<>> ]]
    /\ control_plane_file' = file_after_load(control_plane_file, now)
    /\ UNCHANGED <<audit_log, rollout_file, now, uuid_counter, ret, origin, tampered, lifecycle, inner>>

\* bug: the state is read again under the write
evaluate_action_save_reloading(caller) ==
    /\ calls[caller].pc = "loaded"
    /\ LET r == evaluate_action_on(load(control_plane_file, now), calls[caller].given[1],
                                   now, uuid_counter)
       IN /\ control_plane_file' = save(r.state)
          /\ uuid_counter' = r.uuid
          /\ ret' = Ret("evaluate_action", TRUE, calls[caller].given[1], r.decision)
          /\ calls' = [calls EXCEPT ![caller].pc = "returned",
                                    ![caller].result = <<r.decision>>]
          /\ origin' = IF Len(r.state.approvals) > Len(load(control_plane_file, now).approvals)
                       THEN origin @@ (r.decision.approval_id :> calls[caller].given[1])
                       ELSE origin
    /\ UNCHANGED <<audit_log, rollout_file, now, tampered, lifecycle, inner>>

\* evaluate_action from the decision on: the state that was loaded is changed
\* and saved over the file, the decision is returned
evaluate_action_save(caller) ==
    /\ calls[caller].pc = "loaded"
    /\ LET r == evaluate_action_on(calls[caller].read[1], calls[caller].given[1],
                                   now, uuid_counter)
       IN /\ control_plane_file' = save(r.state)
          /\ uuid_counter' = r.uuid
          /\ ret' = Ret("evaluate_action", TRUE, calls[caller].given[1], r.decision)
          /\ calls' = [calls EXCEPT ![caller].pc = "returned",
                                    ![caller].result = <<r.decision>>]
          /\ origin' = IF Len(r.state.approvals) > Len(calls[caller].read[1].approvals)
                       THEN origin @@ (r.decision.approval_id :> calls[caller].given[1])
                       ELSE origin
    /\ UNCHANGED <<audit_log, rollout_file, now, tampered, lifecycle, inner>>

EvaluateLoad ==
    \E caller \in Callers, request \in PlainRequests : evaluate_action_load(caller, request)

EvaluateSave == \E caller \in Callers : evaluate_action_save(caller)

\* Two callers, one evaluate_action call each, in any interleaving.
NextRace ==
    \/ EvaluateLoad
    \/ EvaluateSave
    \/ Tick

SpecRace == Init /\ [][NextRace]_vars

\* both callers have returned, caller last saved last, and each had loaded the
\* state as it was before the other saved
LostUpdateRace(first, last) ==
    /\ first # last
    /\ calls[first].pc = "returned"
    /\ calls[last].pc = "returned"
    /\ calls[first].read = calls[last].read
    /\ ret.value = calls[last].result[1]

\* C28: when two evaluate_action calls on one workspace both load the state
\* before either saves, both return a decision with a receipt_id, and after
\* both saves the persisted state holds the receipt (and the approval) of
\* only one of them: the one that saved last.
C28_LostUpdate ==
    \A first \in Callers, last \in Callers :
       LostUpdateRace(first, last)
       => LET lost == calls[first].result[1]
              kept == calls[last].result[1]
              state == control_plane_file[1]
          IN /\ lost.receipt_id # kept.receipt_id
             /\ kept.receipt_id \in IdsOf(state.receipts)
             /\ lost.receipt_id \notin IdsOf(state.receipts)
             /\ Len(state.receipts) = Len(calls[last].read[1].receipts) + 1
             /\ lost.approval_id # None => lost.approval_id \notin IdsOf(state.approvals)
             /\ kept.approval_id # None => kept.approval_id \in IdsOf(state.approvals)

\* two concurrent requests were each answered with an approval id and a
\* receipt id, and one approval and one receipt are stored
C28_Witness ==
    /\ \E first \in Callers, last \in Callers : LostUpdateRace(first, last)
    /\ \A caller \in Callers : calls[caller].result[1].requires_approval
    /\ calls[1].result[1].approval_id # calls[2].result[1].approval_id
    /\ Len(control_plane_file[1].approvals) = 1
    /\ Len(control_plane_file[1].receipts) = 1

(***************************************************************************)
(* Two append_audit_event calls at the same time                           *)
(*                                                                         *)
(* append_audit_event reads the log, computes prev_hash and hash, opens    *)
(* the file with append(true) and runs writeln!(file, "{line}").  The file *)
(* is not buffered, so writeln! hands the text of the line and the line    *)
(* feed to the file as two writes, each added at the end of the file.      *)
(* In this section the log is a sequence of lines: an event (a whole line  *)
(* holding one event), [open |-> events] (the text written since the last  *)
(* line feed) or [merged |-> events] (a whole line holding the text of     *)
(* several events).                                                        *)
(***************************************************************************)
IsOpen(line) == "open" \in DOMAIN line

IsMerged(line) == "merged" \in DOMAIN line

\* serde_json::from_str::<AuditEvent> on one line: one event parses, the text
\* of two events behind each other does not
LineParses(line) ==
    IF IsOpen(line) THEN Len(line.open) = 1 ELSE ~IsMerged(line)

EventOfLine(line) == IF IsOpen(line) THEN line.open[1] ELSE line

\* read_audit_events: the events of the file, or Err on the first line that
\* does not parse (empty lines are skipped)
read_audit_events(lines) ==
    IF \A i \in 1..Len(lines) : LineParses(lines[i])
    THEN [ok |-> TRUE, events |-> [i \in 1..Len(lines) |-> EventOfLine(lines[i])]]
    ELSE [ok |-> FALSE, events |-> <<>>]

ParseError == "failed to parse audit event line"

\* the first write of writeln!: the text goes behind whatever ends the file
write_text(lines, event) ==
    IF Len(lines) > 0 /\ IsOpen(lines[Len(lines)])
    THEN [lines EXCEPT ![Len(lines)] = [open |-> Append(@.open, event)]]
    ELSE Append(lines, [open |-> <<event>>])

\* the second write of writeln!: the line feed ends the last line; behind a
\* line feed it makes an empty line, which no reader sees
write_line_feed(lines) ==
    IF Len(lines) > 0 /\ IsOpen(lines[Len(lines)])
    THEN [lines EXCEPT ![Len(lines)] =
             IF Len(@.open) = 1 THEN @.open[1] ELSE [merged |-> @.open]]
    ELSE lines

\* append_audit_event up to the computation of event.hash
append_audit_event_read(caller, event) ==
    /\ calls[caller].pc = "idle"
    /\ LET log == read_audit_events(audit_log)
           chained == append_audit_event_on(log.events, event)
       IN IF log.ok
          THEN /\ calls' = [calls EXCEPT ![caller] =
                       [ pc |-> "read", given |-> <<chained[Len(chained)]>>,
                         read |-> <<log.events>>, result |-> <<>> ]]
               /\ UNCHANGED ret
          ELSE /\ calls' = [calls EXCEPT ![caller].pc = "returned",
                                         ![caller].result = <<ParseError>>]
               /\ ret' = Ret("append_audit_event", FALSE, event.id, ParseError)
    /\ UNCHANGED <<control_plane_file, audit_log, rollout_file, now, uuid_counter, origin, tampered, lifecycle, inner>>

\* bug fixed: the link is taken from the file as it is when the line is written
append_audit_event_write_relinked(caller) ==
    /\ calls[caller].pc = "read"
    /\ LET chained == append_audit_event_on(read_audit_events(audit_log).events,
                                            calls[caller].given[1])
       IN audit_log' = write_text(audit_log, chained[Len(chained)])
    /\ calls' = [calls EXCEPT ![caller].pc = "written"]
    /\ UNCHANGED <<control_plane_file, rollout_file, now, uuid_counter, ret, origin, tampered, lifecycle, inner>>

\* the text of the line is written
append_audit_event_write(caller) ==
    /\ calls[caller].pc = "read"
    /\ audit_log' = write_text(audit_log, calls[caller].given[1])
    /\ calls' = [calls EXCEPT ![caller].pc = "written"]
    /\ UNCHANGED <<control_plane_file, rollout_file, now, uuid_counter, ret, origin, tampered, lifecycle, inner>>

\* the line feed is written and the call returns Ok
append_audit_event_return(caller) ==
    /\ calls[caller].pc = "written"
    /\ audit_log' = write_line_feed(audit_log)
    /\ calls' = [calls EXCEPT ![caller].pc = "returned", ![caller].result = <<"ok">>]
    /\ ret' = Ret("append_audit_event", TRUE, calls[caller].given[1].id, None)
    /\ UNCHANGED <<control_plane_file, rollout_file, now, uuid_counter, origin, tampered, lifecycle, inner>>

\* verify_audit_log on a file that may hold lines that do not parse
verify_audit_log_lines(lines) ==
    LET log == read_audit_events(lines)
    IN IF log.ok
       THEN [ok |-> TRUE, value |-> verify_audit_log_on(log.events)]
       ELSE [ok |-> FALSE, value |-> ParseError]

VerifyLines ==
    /\ ret' = Ret("verify_audit_log", verify_audit_log_lines(audit_log).ok, None,
                  verify_audit_log_lines(audit_log).value)
    /\ UNCHANGED <<control_plane_file, audit_log, rollout_file, now, uuid_counter, origin, tampered, calls, lifecycle, inner>>

\* every caller appends an event with an id of its own
EventsOf(caller) == {event \in AuditEvents : event.id = "audit-" \o ToString(caller)}

AppendRead ==
    \E caller \in Callers :
       \E event \in EventsOf(caller) : append_audit_event_read(caller, event)

AppendWrite == \E caller \in Callers : append_audit_event_write(caller)

AppendReturn == \E caller \in Callers : append_audit_event_return(caller)

\* appends made one after the other before the two callers start
AppendAlone ==
    /\ \A caller \in Callers : calls[caller].pc = "idle"
    /\ AppendAuditEvent

NextAuditRace ==
    \/ AppendAlone
    \/ AppendRead
    \/ AppendWrite
    \/ AppendReturn
    \/ VerifyLines

SpecAuditRace == Init /\ [][NextAuditRace]_vars

\* both calls have returned Ok, and each had read the log before the other
\* wrote
BothReadFirst ==
    /\ \A caller \in Callers : calls[caller].pc = "returned" /\ calls[caller].result = <<"ok">>
    /\ calls[1].read = calls[2].read

\* C29 as stated: after two appends that both read the log before either
\* wrote, both events carry the same prev_hash, the later line does not chain
\* to the earlier one, and verify_audit_log reports valid = false with a
\* chain mismatch.
C29_AuditChainRace ==
    BothReadFirst
    => /\ calls[1].given[1].prev_hash = calls[2].given[1].prev_hash
       /\ verify_audit_log_lines(audit_log).ok
       /\ ~verify_audit_log_lines(audit_log).value.valid
       /\ \E caller \in Callers :
             verify_audit_log_lines(audit_log).value.error
                = "chain mismatch at event " \o calls[caller].given[1].id

\* the two events stand on two lines of their own, the last two of the file
LinesWhole ==
    /\ Len(audit_log) >= 2
    /\ {audit_log[Len(audit_log) - 1], audit_log[Len(audit_log)]}
          = {calls[1].given[1], calls[2].given[1]}

\* the text of the two events stands on one line, the last of the file
LinesMerged ==
    /\ Len(audit_log) >= 1
    /\ IsMerged(audit_log[Len(audit_log)])
    /\ {audit_log[Len(audit_log)].merged[i] : i \in 1..2}
          = {calls[1].given[1], calls[2].given[1]}

\* C29 (amended): after two appends that both read the log before either
\* wrote, both events carry the same prev_hash.  Either each event stands on
\* a line of its own, the later line does not chain to the earlier one and
\* verify_audit_log reports valid = false with a chain mismatch at the later
\* event; or the two texts were written before either line feed, they stand
\* on one line, and verify_audit_log returns an error for the line that does
\* not parse.
C29_AuditChainRaceOrMergedLine ==
    BothReadFirst
    => /\ calls[1].given[1].prev_hash = calls[2].given[1].prev_hash
       /\ \/ /\ LinesWhole
             /\ audit_log[Len(audit_log)].prev_hash # audit_log[Len(audit_log) - 1].hash
             /\ verify_audit_log_lines(audit_log).ok
             /\ ~verify_audit_log_lines(audit_log).value.valid
             /\ verify_audit_log_lines(audit_log).value.error
                   = "chain mismatch at event " \o audit_log[Len(audit_log)].id
          \/ /\ LinesMerged
             /\ verify_audit_log_lines(audit_log) = [ok |-> FALSE, value |-> ParseError]

\* the race has happened behind a log of one event, each event on its line,
\* and verify_audit_log has reported the broken chain
C29_Witness ==
    /\ BothReadFirst
    /\ LinesWhole
    /\ Len(audit_log) = 3
    /\ ret.op = "verify_audit_log"
    /\ ret.ok
    /\ ~ret.value.valid

(***************************************************************************)
(* The policy gate in front of the release commands                        *)
(*                                                                         *)
(* The default rules know release.* actions for owner and admin only.  A   *)
(* stored control_plane.json may carry further rules; load keeps every     *)
(* non-empty rule list as it is.                                           *)
(***************************************************************************)
\* a rule that asks for approval of an operator's release actions
OperatorGovernedReleases ==
    [ id |-> "operator-governed-releases", actor_roles |-> <<"operator">>,
      actions |-> <<"release.stage", "release.promote">>,
      resources |-> <<"*">>, destinations |-> <<"*">>,
      require_approval |-> TRUE, enabled |-> TRUE ]

\* control_plane.json of a workspace whose trial started at 0, with the default
\* rules and the rule above
GovernedReleaseFile ==
    << [ControlPlaneState_default(0) EXCEPT
           !.access_state = AccessState_start_trial(@, 0),
           !.policy_rules = Append(default_policy_rules, OperatorGovernedReleases)] >>

InitGate ==
    /\ control_plane_file \in {<<>>, GovernedReleaseFile}
    /\ audit_log = <<>>
    /\ rollout_file = <<>>
    /\ now = 0
    /\ uuid_counter = 0
    /\ ret = Ret("init", TRUE, None, None)
    /\ origin = <<>>
    /\ tampered = 0
    /\ calls = NoCalls
    /\ lifecycle = LifecycleController_default
    /\ inner = RuntimeInner_new

\* the roles and approval ids the release commands are called with
GateRoles == {None, "operator"}

GateApprovalIds == {None} \cup ApprovalIdsOf(control_plane_file)

GateStage ==
    /\ Len(audit_log) < MaxLog
    /\ \E actor_role \in GateRoles :
          rollout_stage_release(Unsigned(Checksum), None, actor_role, None, "entitled")

GatePromote ==
    /\ Len(audit_log) < MaxLog
    /\ \E actor_role \in GateRoles, approval_id \in GateApprovalIds :
          rollout_promote(None, actor_role, approval_id, "entitled")

GateResolve ==
    \E id \in ApprovalIdsOf(control_plane_file), approved \in BOOLEAN :
       resolve_approval(id, "admin", approved, "reviewed")

NextGate ==
    \/ GateStage
    \/ GatePromote
    \/ GateResolve
    \/ Tick

SpecGate == InitGate /\ [][NextGate]_vars

\* this step is a call of a gated command
GatedStep == ret'.op \in {"rollout_stage_release", "rollout_promote"} /\ audit_log' # audit_log

\* the receipt evaluate_action pushed in this step
NewReceipt == control_plane_file'[1].receipts[1]

ReceiptIdsBefore ==
    IF control_plane_file = <<>> THEN {} ELSE IdsOf(control_plane_file[1].receipts)

\* C30: every call of a gated release command appends exactly one audit event
\* that carries the receipt_id, the approval_id, the reason and the result
\* (allowed / pending_approval / denied) of the decision evaluate_action made
\* in that call; the command fails with that decision's ids and leaves
\* RolloutState as it was unless the decision is allowed; and no other step
\* writes the audit log or RolloutState.
C30_GateThenAuditThenEffect ==
    [][ IF GatedStep
        THEN LET event == audit_log'[Len(audit_log')]
             IN /\ Len(audit_log') = Len(audit_log) + 1
                /\ SubSeq(audit_log', 1, Len(audit_log)) = audit_log
                /\ event.receipt_id = NewReceipt.id
                /\ event.receipt_id \notin ReceiptIdsBefore
                /\ event.result = NewReceipt.result
                /\ event.reason = NewReceipt.reason
                /\ event.action = NewReceipt.action
                /\ event.result = "pending_approval"
                      => /\ event.approval_id \in ApprovalIdsOf(control_plane_file')
                         /\ ~ret'.ok
                         /\ ret'.value = "action requires approval (approval_id: "
                                             \o event.approval_id \o ", receipt_id: "
                                             \o event.receipt_id \o ")"
                         /\ rollout_file' = rollout_file
                /\ event.result = "denied"
                      => /\ ~ret'.ok
                         /\ ret'.value = "action denied by policy: " \o event.reason
                                             \o " (receipt_id: " \o event.receipt_id \o ")"
                         /\ rollout_file' = rollout_file
                /\ event.result = "allowed"
                      => event.approval_id \in {None} \cup ApprovalIdsOf(control_plane_file)
                /\ rollout_file' # rollout_file => event.result = "allowed" /\ ret'.ok
        ELSE audit_log' = audit_log /\ rollout_file' = rollout_file ]_vars

\* a release command has written RolloutState, and the log holds an allowed, a
\* pending and a denied call
C30_Witness ==
    /\ rollout_file # <<>>
    /\ \A result \in {"allowed", "pending_approval", "denied"} :
          \E i \in 1..Len(audit_log) : audit_log[i].result = result

(***************************************************************************)
(* Saving a JSON document, step by step                                    *)
(*                                                                         *)
(* ControlPlaneStore::save writes control_plane.json.tmp with fs::write    *)
(* and renames it over control_plane.json.  save_json_pretty, which        *)
(* rollout_state_save calls, runs fs::write on the final path itself.      *)
(* fs::write creates or truncates the file and then writes the text.  The  *)
(* process may stop between any two steps; the files stay as they are.     *)
(* The temporary file is kept in the call record of the saving caller.     *)
(***************************************************************************)
\* a file that exists and holds no text, or the head of a text
Truncated == <<[text |-> ""]>>

\* the one process of the desktop app
Saver == 1

\* the documents set_retention saves
ControlPlaneDocuments ==
    { [load(control_plane_file, now) EXCEPT !.retention =
          [receipts_days |-> Max2(r, 1), approvals_days |-> Max2(a, 1)]] :
      r \in RetentionDays, a \in RetentionDays }

\* the documents rollout_set_signing_policy and rollout_stage_release save
RolloutDocuments ==
    LET outcomes == { rollout_set_signing_policy_on(rollout_file, request, now) :
                        request \in SigningPolicyRequests }
                    \cup { rollout_stage_release_on(rollout_file, Unsigned(Checksum), now) }
    IN {outcome.state : outcome \in {o \in outcomes : o.saved}}

\* ControlPlaneStore::save, fs::write(&tmp, body): the temporary file is created
save_create_tmp(state) ==
    /\ calls[Saver].pc = "idle"
    /\ calls' = [calls EXCEPT ![Saver] =
                    [pc |-> "tmp_created", given |-> <<state>>, read |-> Truncated,
                     result |-> <<>>]]
    /\ UNCHANGED <<control_plane_file, audit_log, rollout_file, now, uuid_counter, ret, origin, tampered, lifecycle, inner>>

\* ControlPlaneStore::save, fs::write(&tmp, body): the text is written
save_write_tmp ==
    /\ calls[Saver].pc = "tmp_created"
    /\ calls' = [calls EXCEPT ![Saver].pc = "tmp_written", ![Saver].read = calls[Saver].given]
    /\ UNCHANGED <<control_plane_file, audit_log, rollout_file, now, uuid_counter, ret, origin, tampered, lifecycle, inner>>

\* ControlPlaneStore::save, fs::rename(&tmp, &self.path)
save_rename ==
    /\ calls[Saver].pc = "tmp_written"
    /\ control_plane_file' = calls[Saver].read
    /\ calls' = [calls EXCEPT ![Saver].pc = "idle", ![Saver].read = <<>>]
    /\ ret' = Ret("save", TRUE, None, None)
    /\ UNCHANGED <<audit_log, rollout_file, now, uuid_counter, origin, tampered, lifecycle, inner>>

\* save_json_pretty, fs::write(path, payload): the file at the final path is
\* created or truncated
save_json_pretty_create(state) ==
    /\ calls[Saver].pc = "idle"
    /\ rollout_file # Truncated
    /\ rollout_file' = Truncated
    /\ calls' = [calls EXCEPT ![Saver] =
                    [pc |-> "created", given |-> <<state>>, read |-> <<>>, result |-> <<>>]]
    /\ UNCHANGED <<control_plane_file, audit_log, now, uuid_counter, ret, origin, tampered, lifecycle, inner>>

\* save_json_pretty, fs::write(path, payload): the text is written
save_json_pretty_write ==
    /\ calls[Saver].pc = "created"
    /\ rollout_file' = calls[Saver].given
    /\ calls' = [calls EXCEPT ![Saver].pc = "idle"]
    /\ ret' = Ret("save_json_pretty", TRUE, None, None)
    /\ UNCHANGED <<control_plane_file, audit_log, now, uuid_counter, origin, tampered, lifecycle, inner>>

\* load_json_or_default on a file without a whole document: serde_json fails
rollout_state_load_fails ==
    /\ calls[Saver].pc = "idle"
    /\ rollout_file = Truncated
    /\ ret' = Ret("rollout_state_load", FALSE, None, "failed to parse")
    /\ UNCHANGED <<control_plane_file, audit_log, rollout_file, now, uuid_counter, origin, tampered, calls, lifecycle, inner>>

\* the process stops in the middle of a save and is started again
Crash ==
    /\ calls[Saver].pc # "idle"
    /\ calls' = [calls EXCEPT ![Saver] = [Idle EXCEPT !.given = calls[Saver].given]]
    /\ ret' = Ret("crash", FALSE, None, None)
    /\ UNCHANGED <<control_plane_file, audit_log, rollout_file, now, uuid_counter, origin, tampered, lifecycle, inner>>

SaveControlPlane == \E state \in ControlPlaneDocuments : save_create_tmp(state)

SaveRollout ==
    /\ rollout_file # Truncated
    /\ \E state \in RolloutDocuments : save_json_pretty_create(state)

NextSave ==
    \/ SaveControlPlane
    \/ save_write_tmp
    \/ save_rename
    \/ SaveRollout
    \/ save_json_pretty_write
    \/ rollout_state_load_fails
    \/ Crash
    \/ Tick

SpecSave == Init /\ [][NextSave]_vars

\* C31: at every step of a save, and after a stop between its steps, the file
\* at the final path holds the previous document or the whole new document:
\* control_plane.json and the rollout state file change only to the document
\* being saved.
C31_AtomicJsonWrites ==
    [][ /\ control_plane_file' # control_plane_file
           => control_plane_file' = calls[Saver].given
        /\ rollout_file' # rollout_file
           => rollout_file' = calls[Saver].given ]_vars

\* the part of C31 that holds: control_plane.json changes only by the rename,
\* to the whole new document
ControlPlaneSaveAtomic ==
    [][ control_plane_file' # control_plane_file
        => control_plane_file' = calls[Saver].given /\ calls[Saver].pc = "tmp_written" ]_vars

\* the process stopped inside save_json_pretty and the rollout state file is
\* left without a document; the next load fails
RolloutFileLeftTruncated ==
    /\ rollout_file = Truncated
    /\ ret.op = "rollout_state_load"
    /\ ~ret.ok

(***************************************************************************)
(* verify_audit_log on a log with several edits                            *)
(***************************************************************************)
\* the fields an edit rewrites here, and what it puts there
EditedFields == {"prev_hash", "hash", "action"}

EditValues(f) ==
    IF f = "prev_hash" THEN {Genesis, <<"forged">>}
    ELSE IF f = "hash" THEN {<<"forged">>}
    ELSE {"forged"}

\* One field of one event behind the last edited one is rewritten out of band.
EditAuditEvent ==
    /\ \E k \in (tampered + 1)..Len(audit_log), f \in EditedFields :
       \E v \in EditValues(f) :
          /\ audit_log[k][f] # v
          /\ audit_log' = [audit_log EXCEPT ![k][f] = v]
          /\ tampered' = k
    /\ ret' = Ret("tamper", TRUE, None, None)
    /\ UNCHANGED <<control_plane_file, rollout_file, now, uuid_counter, origin, calls, lifecycle, inner>>

\* appends come before the edits
AppendUnedited == tampered = 0 /\ AppendAuditEvent

NextEdits ==
    \/ AppendUnedited
    \/ EditAuditEvent
    \/ verify_audit_log

SpecEdits == Init /\ [][NextEdits]_vars

\* the hash the event at i has to link to
ExpectedPrev(events, i) == IF i = 1 THEN Genesis ELSE events[i - 1].hash

BreaksChain(events, i) == events[i].prev_hash # ExpectedPrev(events, i)

BreaksHash(events, i) ==
    sha256_hex(to_json(unsigned_for_verify(events[i]))) # events[i].hash

Offenders(events) ==
    {i \in 1..Len(events) : BreaksChain(events, i) \/ BreaksHash(events, i)}

\* C32: on an invalid log verify_audit_log reports the first offending event
\* in file order by its id, last_hash = the hash of the event before it
\* ("genesis" for the first event) and entries = the number of events; on a
\* valid non-empty log last_hash is the hash of the final event; an empty log
\* is valid with no last_hash.
C32_VerifyReport ==
    ret.op = "verify_audit_log" =>
        IF Len(audit_log) = 0
        THEN ret.value = AuditLogVerification(TRUE, 0, <<>>, None)
        ELSE IF Offenders(audit_log) = {}
        THEN ret.value = AuditLogVerification(TRUE, Len(audit_log),
                             <<audit_log[Len(audit_log)].hash>>, None)
        ELSE LET first == Min(Offenders(audit_log))
             IN ret.value = AuditLogVerification(FALSE, Len(audit_log),
                                <<ExpectedPrev(audit_log, first)>>,
                                (IF BreaksChain(audit_log, first)
                                 THEN "chain mismatch at event "
                                 ELSE "hash mismatch at event ")
                                \o audit_log[first].id)

\* a log with two offending events, the first of them not the first event,
\* has been verified
C32_Witness ==
    /\ ret.op = "verify_audit_log"
    /\ Cardinality(Offenders(audit_log)) >= 2
    /\ Min(Offenders(audit_log)) > 1
    /\ \E later \in Offenders(audit_log) :
          audit_log[later].id # audit_log[Min(Offenders(audit_log))].id

(***************************************************************************)
(* Rule selection on stored rule lists                                     *)
(***************************************************************************)
\* rules around the request of the unit tests: an exact allow rule, a rule
\* that governs everything through an empty role filter and wildcards, the
\* two of them disabled, and an allow rule for another resource
AllowExact ==
    [ id |-> "allow-exact", actor_roles |-> <<"viewer", BaseRequest.actor_role>>,
      actions |-> <<BaseRequest.action>>, resources |-> <<BaseRequest.resource>>,
      destinations |-> <<BaseRequest.destination>>,
      require_approval |-> FALSE, enabled |-> TRUE ]

GovernAll ==
    [ id |-> "govern-all", actor_roles |-> <<>>,
      actions |-> <<"*">>, resources |-> <<"logs", "*">>, destinations |-> <<>>,
      require_approval |-> TRUE, enabled |-> TRUE ]

StoredRules ==
    { AllowExact, GovernAll,
      [AllowExact EXCEPT !.id = "allow-disabled", !.enabled = FALSE],
      [GovernAll EXCEPT !.id = "govern-disabled", !.enabled = FALSE],
      [AllowExact EXCEPT !.id = "allow-github", !.resources = <<"integration:github">>] }

\* the non-empty rule lists of up to MaxRules rules
StoredRuleLists ==
    UNION { [1..n -> StoredRules] : n \in 1..MaxRules }

StoredRuleFiles ==
    { <<[ControlPlaneState_default(0) EXCEPT
            !.access_state = AccessState_start_trial(@, 0),
            !.policy_rules = rules]>> : rules \in StoredRuleLists }

InitRules ==
    /\ control_plane_file \in StoredRuleFiles
    /\ audit_log = <<>>
    /\ rollout_file = <<>>
    /\ now = 0
    /\ uuid_counter = 0
    /\ ret = Ret("init", TRUE, None, None)
    /\ origin = <<>>
    /\ tampered = 0
    /\ calls = NoCalls
    /\ lifecycle = LifecycleController_default
    /\ inner = RuntimeInner_new

\* requests without approval id: the request of the unit tests, the same by
\* an owner, and the same for a resource the exact rule does not list
RuleRequests ==
    PlainRequests
    \cup { [request EXCEPT !.resource = "integration:jira"] : request \in PlainRequests }

EvaluateUnderRules == \E request \in RuleRequests : evaluate_action(request)

NextRules ==
    \/ EvaluateUnderRules
    \/ Tick

SpecRules == InitRules /\ [][NextRules]_vars

\* a filter lets a value through: it is empty, or lists "*", or lists the value
FilterAccepts(filters, value) ==
    \/ filters = <<>>
    \/ "*" \in {filters[i] : i \in 1..Len(filters)}
    \/ value \in {filters[i] : i \in 1..Len(filters)}

RuleApplies(rule, request) ==
    /\ rule.enabled
    /\ FilterAccepts(rule.actor_roles, request.actor_role)
    /\ FilterAccepts(rule.actions, request.action)
    /\ FilterAccepts(rule.resources, request.resource)
    /\ FilterAccepts(rule.destinations, request.destination)

\* the rules in list order up to and including the first that applies
RECURSIVE FirstApplying(_, _)
FirstApplying(rules, request) ==
    IF rules = <<>> THEN <<>>
    ELSE IF RuleApplies(Head(rules), request) THEN <<Head(rules)>>
    ELSE FirstApplying(Tail(rules), request)

\* C33: the decision of evaluate_action follows the first rule in list order
\* that is enabled and whose four filters accept the request (empty filter,
\* "*", or the exact value): for a request without approval id under an
\* accessible view it is allowed when that rule does not require approval,
\* pending with a new approval when it does, and denied for want of a rule
\* when no rule applies; rules that are disabled and rules behind the first
\* applying one do not change it.
C33_FirstMatch ==
    [][ (EvaluateStep /\ ViewAccessible)
        => LET first == FirstApplying(Loaded.policy_rules, ret'.request)
               decision == ret'.value
           IN IF first = <<>>
              THEN /\ ~decision.allowed
                   /\ ~decision.requires_approval
                   /\ decision.reason = "no matching policy rule"
              ELSE IF first[1].require_approval
              THEN /\ ~decision.allowed
                   /\ decision.requires_approval
                   /\ decision.reason = "action requires approval"
              ELSE /\ decision.allowed
                   /\ ~decision.requires_approval
                   /\ decision.reason = "policy allowed" ]_vars

\* a request was allowed by the rule at the head of a list whose second rule
\* applies too and requires approval
C33_Witness ==
    /\ ret.op = "evaluate_action"
    /\ ret.value.allowed
    /\ Len(control_plane_file[1].policy_rules) = 2
    /\ RuleApplies(control_plane_file[1].policy_rules[2], ret.request)
    /\ control_plane_file[1].policy_rules[2].require_approval

(***************************************************************************)
(* The receipts under every operation of the store                         *)
(***************************************************************************)
ResolveStored ==
    \E id \in ApprovalIdsOf(control_plane_file), approved \in BOOLEAN :
       resolve_approval(id, "admin", approved, "reviewed")

UpgradeToOrg == set_paid_plan("org")

\* stored ledgers that hold receipts and no approvals
InitReceipts ==
    /\ InitPurge
    /\ control_plane_file[1].approvals = <<>>

\* Every operation of ControlPlaneStore, on a stored ledger.
NextReceipts ==
    \/ EvaluatePlain
    \/ ResolveStored
    \/ RetainShortest
    \/ start_trial
    \/ UpgradeToOrg
    \/ SetActiveView
    \/ purge_by_retention
    \/ Tick

SpecReceipts == InitReceipts /\ [][NextReceipts]_vars

ReceiptsBefore == control_plane_file[1].receipts

ReceiptsAfter == control_plane_file'[1].receipts

\* C34: a receipt once written keeps all its fields and its place among the
\* surviving receipts.  evaluate_action puts one new receipt in front of the
\* old ones and drops receipts only from the far end and only beyond the
\* bound; purge_by_retention takes receipts out and leaves the others as they
\* are and in their order; resolve_approval, set_retention, start_trial,
\* set_paid_plan and set_active_view leave the receipts as they are.
C34_ReceiptsImmutable ==
    [][ IF EvaluateStep
        THEN /\ Len(ReceiptsAfter) = Min({Len(ReceiptsBefore) + 1, ReceiptCap})
             /\ ReceiptsAfter[1].id \notin IdsOf(ReceiptsBefore)
             /\ Tail(ReceiptsAfter) = SubSeq(ReceiptsBefore, 1, Len(ReceiptsAfter) - 1)
        ELSE IF PurgeStep
        THEN LET Survives(receipt) ==
                    receipt \in {ReceiptsAfter[i] : i \in 1..Len(ReceiptsAfter)}
             IN ReceiptsAfter = SelectSeq(ReceiptsBefore, Survives)
        ELSE ReceiptsAfter = ReceiptsBefore ]_vars

\* a stored receipt stands unchanged behind a newer one after an approval was
\* decided and the plan was changed
C34_Witness ==
    /\ Len(control_plane_file[1].receipts) = 2
    /\ control_plane_file[1].receipts[2] \in {StoredReceipt(1, stamp) : stamp \in StoredStamps}
    /\ control_plane_file[1].receipts[1].result = "pending_approval"
    /\ \E i \in 1..Len(control_plane_file[1].approvals) :
          control_plane_file[1].approvals[i].status = "approved"
    /\ control_plane_file[1].access_state.plan = "org"

(***************************************************************************)
(* LifecycleController                                                     *)
(***************************************************************************)
TransitionReasons == {None, "user requested stop", "simulated session failure"}

Transition ==
    \E target \in AgentStates, reason \in TransitionReasons : transition(target, reason)

NextLifecycle ==
    \/ Transition
    \/ Tick

SpecLifecycle == Init /\ [][NextLifecycle]_vars

\* the edges the agent state may move along
LifecycleEdges ==
    ({"stopped"} \X {"starting"})
    \cup ({"starting"} \X {"running", "degraded", "stopping"})
    \cup ({"running"} \X {"degraded", "stopping"})
    \cup ({"degraded"} \X {"running", "stopping"})
    \cup ({"stopping"} \X {"stopped"})

\* this step is a call of transition; ret' holds the target and the reason
TransitionStep == ret'.op = "transition" /\ now' = now

\* C35: transition moves the agent state only along the edges of
\* LifecycleEdges, taking the reason given; a request for the current state
\* succeeds and leaves the state as it is; any other request returns an
\* "invalid lifecycle transition" error and leaves state and reason as they
\* are.
C35_LifecycleTransitions ==
    [][ TransitionStep
        => LET from == lifecycle.state
               target == ret'.request.target
           IN /\ lifecycle'.state # from => <<from, lifecycle'.state>> \in LifecycleEdges
              /\ IF target = from
                 THEN ret'.ok /\ lifecycle'.state = from
                 ELSE IF <<from, target>> \in LifecycleEdges
                 THEN /\ ret'.ok
                      /\ lifecycle'.state = target
                      /\ lifecycle'.reason = ret'.request.reason
                 ELSE /\ ~ret'.ok
                      /\ ret'.value = "invalid lifecycle transition: " \o from
                                         \o " -> " \o target
                      /\ lifecycle' = lifecycle ]_vars

\* a degraded agent with a reason was asked to go to starting and was refused
C35_Witness ==
    /\ ret.op = "transition"
    /\ ~ret.ok
    /\ ret.request.target = "starting"
    /\ lifecycle.state = "degraded"
    /\ lifecycle.reason = "simulated session failure"

(***************************************************************************)
(* LocalAgentRuntime                                                       *)
(*                                                                         *)
(* start, stop and send_user_message are async and take &self; the desktop *)
(* app calls them on a clone of the runtime outside its runtime_slot lock, *)
(* so calls overlap.  Each is cut where it gives up the lifecycle mutex or *)
(* the inner mutex for good: between the first look at the state and the   *)
(* work, and between the work and the last transition.                     *)
(***************************************************************************)
\* what start finds: a session that answers, a session that fails on every
\* message, a factory that fails, a profile config that does not load
StartKinds == {"answering", "failing", "no_session", "no_config"}

SessionFailure == "simulated session failure"

FactoryFailure == "failed to create zeroclaw agent session"

ConfigFailure == "failed to parse profile config"

StopReasons == {"user requested stop"}

\* the call of the caller returns: its record is cleared, ret holds the result
Returns(caller, op, ok, request, value) ==
    /\ calls' = [calls EXCEPT ![caller] = Idle]
    /\ ret' = Ret(op, ok, request, value)

Proceeds(caller, pc, given, read, result) ==
    /\ calls' = [calls EXCEPT ![caller] =
                    [pc |-> pc, given |-> given, read |-> read, result |-> result]]
    /\ UNCHANGED ret

\* start: the state is looked at
start_check(caller, kind) ==
    /\ calls[caller].pc = "idle"
    /\ IF lifecycle.state # "stopped"
       THEN Returns(caller, "start", FALSE, kind, "runtime is already active")
       ELSE Proceeds(caller, "start_checked", <<kind>>, <<>>, <<>>)
    /\ UNCHANGED <<control_plane_file, audit_log, rollout_file, now, uuid_counter,
                   lifecycle, inner, origin, tampered>>

\* start: transition to Starting, the profile config is loaded and the
\* session is created; a factory failure moves the agent to Degraded
start_create(caller) ==
    /\ calls[caller].pc = "start_checked"
    /\ LET kind == calls[caller].given[1]
           starting == transition_on(lifecycle, "starting", None, now)
       IN IF ~starting.ok
          THEN /\ Returns(caller, "start", FALSE, kind, starting.error)
               /\ UNCHANGED lifecycle
          ELSE IF kind = "no_config"
          THEN /\ lifecycle' = starting.snapshot
               /\ Returns(caller, "start", FALSE, kind, ConfigFailure)
          ELSE IF kind = "no_session"
          THEN /\ lifecycle' = transition_on(starting.snapshot, "degraded",
                                             FactoryFailure, now).snapshot
               /\ Returns(caller, "start", FALSE, kind, FactoryFailure)
          ELSE /\ lifecycle' = starting.snapshot
               /\ Proceeds(caller, "start_created", <<kind>>, <<>>, <<>>)
    /\ UNCHANGED <<control_plane_file, audit_log, rollout_file, now, uuid_counter,
                   inner, origin, tampered>>

\* start: the session and the health task are stored, transition to Running
start_finish(caller) ==
    /\ calls[caller].pc = "start_created"
    /\ LET kind == calls[caller].given[1]
           running == transition_on(lifecycle, "running", None, now)
       IN /\ inner' = [profile_id |-> "profile-a", session |-> kind, health_task |-> TRUE]
          /\ lifecycle' = running.snapshot
          /\ Returns(caller, "start", running.ok, kind,
                     IF running.ok THEN None ELSE running.error)
    /\ UNCHANGED <<control_plane_file, audit_log, rollout_file, now, uuid_counter,
                   origin, tampered>>

\* stop: the profile id is read
stop_profile(caller, reason) ==
    /\ calls[caller].pc = "idle"
    /\ Proceeds(caller, "stop_profiled", <<reason>>,
                <<IF inner.profile_id = None THEN "unknown-profile" ELSE inner.profile_id>>,
                <<>>)
    /\ UNCHANGED <<control_plane_file, audit_log, rollout_file, now, uuid_counter,
                   lifecycle, inner, origin, tampered>>

\* stop: nothing to do when stopped, else transition to Stopping
stop_begin(caller) ==
    /\ calls[caller].pc = "stop_profiled"
    /\ LET reason == calls[caller].given[1]
           stopping == transition_on(lifecycle, "stopping", reason, now)
       IN IF lifecycle.state = "stopped"
          THEN /\ Returns(caller, "stop", TRUE, reason, None)
               /\ UNCHANGED lifecycle
          ELSE IF ~stopping.ok
          THEN /\ Returns(caller, "stop", FALSE, reason, stopping.error)
               /\ UNCHANGED lifecycle
          ELSE /\ lifecycle' = stopping.snapshot
               /\ Proceeds(caller, "stop_stopping", calls[caller].given,
                           calls[caller].read, <<>>)
    /\ UNCHANGED <<control_plane_file, audit_log, rollout_file, now, uuid_counter,
                   inner, origin, tampered>>

\* stop: the session and the health task are taken out
stop_clear(caller) ==
    /\ calls[caller].pc = "stop_stopping"
    /\ inner' = RuntimeInner_new
    /\ Proceeds(caller, "stop_cleared", calls[caller].given, calls[caller].read, <<>>)
    /\ UNCHANGED <<control_plane_file, audit_log, rollout_file, now, uuid_counter,
                   lifecycle, origin, tampered>>

\* stop: transition to Stopped
stop_finish(caller) ==
    /\ calls[caller].pc = "stop_cleared"
    /\ LET reason == calls[caller].given[1]
           stopped == transition_on(lifecycle, "stopped", reason, now)
       IN /\ lifecycle' = stopped.snapshot
          /\ Returns(caller, "stop", stopped.ok, reason,
                     IF stopped.ok THEN None ELSE stopped.error)
    /\ UNCHANGED <<control_plane_file, audit_log, rollout_file, now, uuid_counter,
                   inner, origin, tampered>>

\* send_user_message: the state is looked at
send_user_message_check(caller) ==
    /\ calls[caller].pc = "idle"
    /\ IF lifecycle.state \notin {"running", "degraded"}
       THEN Returns(caller, "send_user_message", FALSE, lifecycle.state,
                    "runtime is not running")
       ELSE Proceeds(caller, "send_checked", <<>>, <<lifecycle.state>>, <<>>)
    /\ UNCHANGED <<control_plane_file, audit_log, rollout_file, now, uuid_counter,
                   lifecycle, inner, origin, tampered>>

\* send_user_message: under the inner mutex the session runs the message
send_user_message_run(caller) ==
    /\ calls[caller].pc = "send_checked"
    /\ IF inner.session = None
       THEN Returns(caller, "send_user_message", FALSE, calls[caller].read[1],
                    "runtime session not initialized")
       ELSE Proceeds(caller, "send_ran", <<>>, calls[caller].read,
                     <<IF inner.session = "answering" THEN "echo:hi" ELSE SessionFailure>>)
    /\ UNCHANGED <<control_plane_file, audit_log, rollout_file, now, uuid_counter,
                   lifecycle, inner, origin, tampered>>

\* bug: a failed message leaves the lifecycle alone
send_user_message_finish_without_degrading(caller) ==
    /\ calls[caller].pc = "send_ran"
    /\ LET response == calls[caller].result[1]
       IN /\ UNCHANGED lifecycle
          /\ Returns(caller, "send_user_message", response # SessionFailure,
                     calls[caller].read[1], response)
    /\ UNCHANGED <<control_plane_file, audit_log, rollout_file, now, uuid_counter,
                   inner, origin, tampered>>

\* send_user_message: the response is returned; on an error the agent is
\* moved to Degraded, a refused transition being ignored
send_user_message_finish(caller) ==
    /\ calls[caller].pc = "send_ran"
    /\ LET response == calls[caller].result[1]
       IN IF response # SessionFailure
          THEN /\ UNCHANGED lifecycle
               /\ Returns(caller, "send_user_message", TRUE, calls[caller].read[1], response)
          ELSE /\ lifecycle' = transition_on(lifecycle, "degraded", response, now).snapshot
               /\ Returns(caller, "send_user_message", FALSE, calls[caller].read[1],
                          response)
    /\ UNCHANGED <<control_plane_file, audit_log, rollout_file, now, uuid_counter,
                   inner, origin, tampered>>

StartCheck == \E caller \in Callers, kind \in StartKinds : start_check(caller, kind)

StartCreate == \E caller \in Callers : start_create(caller)

StartFinish == \E caller \in Callers : start_finish(caller)

StopProfile == \E caller \in Callers, reason \in StopReasons : stop_profile(caller, reason)

StopBegin == \E caller \in Callers : stop_begin(caller)

StopClear == \E caller \in Callers : stop_clear(caller)

StopFinish == \E caller \in Callers : stop_finish(caller)

SendCheck == \E caller \in Callers : send_user_message_check(caller)

SendRun == \E caller \in Callers : send_user_message_run(caller)

SendFinish == \E caller \in Callers : send_user_message_finish(caller)

NextRuntime ==
    \/ StartCheck
    \/ StartCreate
    \/ StartFinish
    \/ StopProfile
    \/ StopBegin
    \/ StopClear
    \/ StopFinish
    \/ SendCheck
    \/ SendRun
    \/ SendFinish

SpecRuntime == Init /\ [][NextRuntime]_vars

\* the caller's session has failed on a message sent while the agent was
\* running, and in this step the call returns
FailedSendReturns(caller) ==
    /\ calls[caller].pc = "send_ran"
    /\ calls[caller].read = <<"running">>
    /\ calls[caller].result = <<SessionFailure>>
    /\ calls'[caller].pc = "idle"

\* start and send_user_message look at the state and refuse
Refusals ==
    \A caller \in Callers :
       /\ (calls[caller].pc = "idle" /\ calls'[caller].pc = "send_checked")
             => lifecycle.state \in {"running", "degraded"}
       /\ (calls[caller].pc = "idle" /\ calls'[caller].pc = "start_checked")
             => lifecycle.state = "stopped"
       /\ (\E kind \in StartKinds : start_check(caller, kind)) /\ lifecycle.state # "stopped"
             => /\ ret' = Ret("start", FALSE, ret'.request, "runtime is already active")
                /\ lifecycle' = lifecycle
                /\ inner' = inner
       /\ send_user_message_check(caller) /\ lifecycle.state \notin {"running", "degraded"}
             => /\ ret' = Ret("send_user_message", FALSE, lifecycle.state,
                              "runtime is not running")
                /\ lifecycle' = lifecycle
                /\ inner' = inner

\* C36 as stated: when the session of a running runtime fails on a message,
\* send_user_message returns that error and the state becomes Degraded;
\* send_user_message is refused with "runtime is not running" outside Running
\* and Degraded, start with "runtime is already active" outside Stopped.
C36_FailedSendDegrades ==
    [][ /\ Refusals
        /\ \A caller \in Callers :
              FailedSendReturns(caller)
              => /\ ret' = Ret("send_user_message", FALSE, "running", SessionFailure)
                 /\ lifecycle'.state = "degraded" ]_vars

\* C36 (amended): when the session of a running runtime fails on a message,
\* send_user_message returns that error and moves the agent to Degraded with
\* the error as reason, unless a stop that overlaps the call has moved the
\* agent to Stopping or Stopped by then: the refused transition is ignored and
\* the state stays what stop made it.  The refusals are as stated.
C36_FailedSendDegradesUnlessStopped ==
    [][ /\ Refusals
        /\ \A caller \in Callers :
              FailedSendReturns(caller)
              => /\ ret' = Ret("send_user_message", FALSE, "running", SessionFailure)
                 /\ IF lifecycle.state \in {"stopping", "stopped"}
                    THEN lifecycle' = lifecycle
                    ELSE /\ lifecycle'.state = "degraded"
                         /\ lifecycle'.reason = SessionFailure ]_vars

\* a message sent to a running runtime has failed, the error is returned and
\* the agent is degraded for that reason, no other call being in flight
C36_Witness ==
    /\ ret = Ret("send_user_message", FALSE, "running", SessionFailure)
    /\ lifecycle.state = "degraded"
    /\ lifecycle.reason = SessionFailure
    /\ inner.session = "failing"
    /\ calls = NoCalls

(***************************************************************************)
(* Rollback after rollback                                                 *)
(***************************************************************************)
\* commands of one run: two releases staged and promoted, a third staging and
\* two rollbacks need six
MaxRollbackCommands == 6

StageAgain ==
    /\ Len(audit_log) < MaxRollbackCommands
    /\ \E release_id \in {"rel-1", "rel-2"} :
          rollout_stage_release(SignedRelease(release_id, None, "key-a"),
                                None, None, None, "entitled")

PromoteAgain ==
    /\ Len(audit_log) < MaxRollbackCommands
    /\ rollout_promote(None, None, None, "entitled")

RollbackAgain ==
    /\ Len(audit_log) < MaxRollbackCommands
    /\ rollout_rollback(None, None, None, "entitled")

NextRollback ==
    \/ StageAgain
    \/ PromoteAgain
    \/ RollbackAgain

SpecRollback == Init /\ [][NextRollback]_vars

\* the three release slots of a RolloutState all hold this release
AllSlotsHold(rollout, release) ==
    /\ release # <<>>
    /\ rollout.current_release = release
    /\ rollout.previous_release = release
    /\ rollout.staged_release = release

\* C39: a successful rollback leaves previous_release as it was, makes it the
\* current release too, and overwrites staged_release with the release that was
\* current, so that what was staged before is gone; a rollback that follows a
\* successful rollback succeeds and leaves the release the first one restored
\* in current, previous and staged.
C39_RollbackTwice ==
    [][ (RollbackStep /\ ret'.ok)
        => /\ rollout_file'[1].previous_release = RolloutBefore.previous_release
           /\ rollout_file'[1].current_release = rollout_file'[1].previous_release
           /\ rollout_file'[1].current_release # <<>>
           /\ rollout_file'[1].staged_release = RolloutBefore.current_release
           /\ (RolloutBefore.staged_release # RolloutBefore.current_release)
                 => rollout_file'[1].staged_release # RolloutBefore.staged_release
           /\ rollout_rollback_on(rollout_file', now').ok
           /\ AllSlotsHold(rollout_rollback_on(rollout_file', now').state,
                           rollout_file'[1].current_release)
           /\ (ret.op = "rollout_rollback" /\ ret.ok)
                 => AllSlotsHold(rollout_file'[1], rollout_file[1].current_release) ]_vars

\* rel-2 was promoted over rel-1 and another release staged; the first
\* rollback restored rel-1 and staged rel-2 in place of it, the second one has
\* left rel-1 in all three slots
C39_Witness ==
    /\ ret.op = "rollout_rollback"
    /\ ret.ok
    /\ ret.request.before.staged_release # <<>>
    /\ ret.request.before.staged_release # ret.request.before.current_release
    /\ ret.request.before.current_release = ret.request.before.previous_release
    /\ AllSlotsHold(rollout_file[1], ret.request.before.current_release)

(***************************************************************************)
(* The approval gate over evaluations, decisions and purges                *)
(***************************************************************************)
\* the ages of the approvals a stored control plane holds: none, one past or
\* within the shortest retention, or one of each
StoredApprovalAges ==
    { <<>>, <<to_rfc3339(0 - MaxAge)>>, <<to_rfc3339(0)>>,
      <<to_rfc3339(0 - MaxAge), to_rfc3339(0)>> }

\* stored control planes that hold such approvals and no receipts
InitApprovals ==
    /\ InitPurge
    /\ control_plane_file[1].receipts = <<>>
    /\ [i \in 1..Len(control_plane_file[1].approvals) |->
           control_plane_file[1].approvals[i].created_at] \in StoredApprovalAges

\* the governed request of an operator, the same by another operator, and the
\* same by an owner, whom no rule asks for an approval; each with no id, with
\* the id of a stored approval or with the id of the first one, purged or not
ReplayShapes ==
    { BaseRequest,
      [BaseRequest EXCEPT !.actor_id = "operator-b"],
      [BaseRequest EXCEPT !.actor_role = "owner"] }

ReplayRequests(file) ==
    { [ actor_id |-> s.actor_id, actor_role |-> s.actor_role, action |-> s.action,
        resource |-> s.resource, destination |-> s.destination,
        approval_id |-> a, occurred_at |-> None, context |-> "{}" ] :
      s \in ReplayShapes, a \in {None, StoredApproval(1, None).id} \cup ApprovalIdsOf(file) }

EvaluateReplay ==
    \E request \in ReplayRequests(control_plane_file) : evaluate_action(request)

NextApprovals ==
    \/ EvaluateReplay
    \/ ResolveStored
    \/ RetainShortest
    \/ purge_by_retention

SpecApprovals == InitApprovals /\ [][NextApprovals]_vars

\* the approvals hold one with the id the request carries that is approved and
\* was filed for the request's actor, role, action, resource and destination
HoldsApprovalFor(approvals, request) ==
    \E i \in 1..Len(approvals) :
       /\ approvals[i].id = request.approval_id
       /\ approvals[i].status = "approved"
       /\ SameAction(approvals[i], request)

\* C37: whenever evaluate_action allows a request whose first matching enabled
\* rule requires approval, the request carried an approval_id and the state
\* loaded by that call, and the state it saved, hold an approval with that id,
\* status Approved, and the actor_id, actor_role, action, resource and
\* destination of the request.
C37_ApprovalGateSafety ==
    [][ (EvaluateStep /\ GovernedRequest(ret'.request) /\ ret'.value.allowed)
        => /\ ret'.request.approval_id # None
           /\ HoldsApprovalFor(Loaded.approvals, ret'.request)
           /\ HoldsApprovalFor(control_plane_file'[1].approvals, ret'.request) ]_vars

\* a stored approval was approved and its request, replayed with the id, has
\* been allowed
C37_Witness ==
    /\ ret.op = "evaluate_action"
    /\ ret.value.allowed
    /\ ret.request.actor_role = "operator"
    /\ ret.request.approval_id # None
    /\ HoldsApprovalFor(control_plane_file[1].approvals, ret.request)

(***************************************************************************)
(* The AccessState the program keeps                                       *)
(***************************************************************************)
\* Plans and views being set on a workspace that starts without a file, while
\* requests are evaluated and the trial runs out.
NextPlans ==
    \/ start_trial
    \/ SetPaidPlan
    \/ SetActiveView
    \/ EvaluatePlain
    \/ Tick

SpecPlans == Init /\ [][NextPlans]_vars

\* under a paid plan the active view is the plan's view
PaidViewIsPlanView(access) ==
    /\ access.plan = "personal" => access.active_view = "personal"
    /\ access.plan = "org" => access.active_view = "org"
    /\ access.plan \in {"personal", "org"}
          => can_access_view(access, access.active_view, now)

\* C38: in every state start_trial, set_paid_plan and set_active_view leave,
\* plan Personal goes with view Personal and plan Org with view Org, so that
\* the active view of a paid plan is accessible; set_active_view to a view the
\* plan does not allow, any view under an expired trial included, fails and
\* leaves the AccessState as it was.
C38_AccessStateInvariant ==
    /\ [](control_plane_file # <<>>
            => PaidViewIsPlanView(control_plane_file[1].access_state))
    /\ [][ \A view \in Views :
              (set_active_view(view) /\ ~can_access_view(Loaded.access_state, view, now))
              => /\ ret' = Ret("set_active_view", FALSE, view,
                               "current plan does not allow view")
                 /\ control_plane_file'[1].access_state = Loaded.access_state ]_vars

\* under plan Org, with the Org view active, the Personal view was asked for
\* and refused
C38_Witness ==
    /\ ret = Ret("set_active_view", FALSE, "personal", "current plan does not allow view")
    /\ control_plane_file[1].access_state.plan = "org"
    /\ control_plane_file[1].access_state.active_view = "org"

(***************************************************************************)
(* Events deleted from the audit log or put in another order               *)
(***************************************************************************)
\* the ways to keep some of n lines in some order: the positions, in the old
\* file, of the lines of the new one
Arrangements(n) ==
    UNION { { p \in [1..m -> 1..n] : \A i, j \in 1..m : i # j => p[i] # p[j] } :
            m \in 0..n }

\* the arrangement keeps the first lines of the file where they were and drops
\* the rest
KeepsPrefix(p) == \A i \in DOMAIN p : p[i] = i

\* the first line of the new file that is not the line the old file had there
FirstDisplaced(p) == Min({i \in DOMAIN p : p[i] # i} \cup {Len(p) + 1})

\* Lines of a log that the program has built are deleted or reordered out of
\* band, once; tampered is the first displaced line, or the line after the
\* last when only a suffix went.
RearrangeAuditLog ==
    /\ tampered = 0
    /\ audit_log # <<>>
    /\ \E p \in Arrangements(Len(audit_log)) :
          /\ Len(p) < Len(audit_log) \/ ~KeepsPrefix(p)
          /\ audit_log' = [i \in 1..Len(p) |-> audit_log[p[i]]]
          /\ tampered' = FirstDisplaced(p)
    /\ ret' = Ret("tamper", TRUE, None, None)
    /\ UNCHANGED <<control_plane_file, rollout_file, now, uuid_counter, origin, calls,
                   lifecycle, inner>>

NextCuts ==
    \/ AppendUnedited
    \/ RearrangeAuditLog
    \/ verify_audit_log

SpecCuts == Init /\ [][NextCuts]_vars

\* the events are the first events of the log, in the log's order
IsPrefixOf(events, log) ==
    /\ Len(events) <= Len(log)
    /\ \A i \in 1..Len(events) : events[i] = log[i]

\* C40: when events of a log built by sequential appends are deleted or
\* reordered, verify_audit_log returns valid == true if what is left is the
\* log without a suffix, and valid == false otherwise, at the first event that
\* is not where it was.
C40_DeleteOrReorderDetected ==
    [][ /\ (tampered = 0 /\ tampered' # 0)
            => /\ verify_audit_log_on(audit_log).valid
               /\ verify_audit_log_on(audit_log').valid
                     <=> IsPrefixOf(audit_log', audit_log)
               /\ IsPrefixOf(audit_log', audit_log) <=> tampered' > Len(audit_log')
        /\ (ret'.op = "verify_audit_log" /\ tampered # 0 /\ audit_log' = audit_log)
            => /\ ret'.value.entries = Len(audit_log)
               /\ IF tampered > Len(audit_log)
                  THEN ret'.value.valid /\ ret'.value.error = None
                  ELSE /\ ~ret'.value.valid
                       /\ ret'.value.error
                             = "chain mismatch at event " \o audit_log[tampered].id ]_vars

\* the first of three events was deleted (or moved behind the others) and the
\* log verified: the chain breaks at the event that now stands first
C40_Witness ==
    /\ ret.op = "verify_audit_log"
    /\ tampered = 1
    /\ Len(audit_log) >= 2
    /\ audit_log[1].prev_hash # Genesis
    /\ ~ret.value.valid
    /\ ret.value.error = "chain mismatch at event " \o audit_log[1].id

====
